---- MODULE Spec2Model ----
(***************************************************************************)
(* A model of the Ghana Law MCP ingestion and citation code:               *)
(*   - the rate-limited fetcher (scripts/lib/fetcher.ts),                  *)
(*   - the act content parser (scripts/lib/parser.ts),                     *)
(*   - the provision deduplicator, the international-reference extractor   *)
(*     and the database load (scripts/build-db.ts),                        *)
(*   - the citation parser (src/citation/parser.ts).                       *)
(* Each component has its own variables and its own specification; a       *)
(* component's specification holds the other components' variables at      *)
(* their initial values.                                                   *)
(***************************************************************************)
EXTENDS Integers, Sequences, FiniteSets, TLC

VARIABLES
  \* ---- fetcher (time is kept as distances to the present instant, in ms) ----
  callers,          \* the tasks that call fetchWithRateLimit in this run
  elapsed,          \* Date.now() - lastRequestTime, counted up to MIN_DELAY_MS
  fpc,              \* per task: position in fetchWithRateLimit
  attempt,          \* per task: the loop variable attempt
  timer,            \* per task: ms left until its pending setTimeout is due
  resps,            \* per task: statuses of the responses of the current call
  result,           \* per task: what the current call gave its caller
  sinceFirstSent,   \* ms since the latest first request of a call, up to
                    \* MIN_DELAY_MS (-1: no call has sent a request yet)
  minFirstGap,      \* smallest time between the first requests of two calls,
                    \* counted up to MIN_DELAY_MS
  sinceCompleted    \* ms since the latest request completed (its response or
                    \* its failure arrived), up to MIN_DELAY_MS (-1: none yet)

VARIABLES
  \* ---- dedupeProvisions ----
  provisions,       \* the argument: seed.provisions
  dedupeResult      \* { deduped, stats } once the call has returned

dedupeVars == <<provisions, dedupeResult>>

VARIABLES
  \* ---- parseActContent ----
  ppc,              \* position in parseActContent
  pLeft,            \* elements the running loop has still to visit
  pProvisions,      \* const provisions
  pDefinitions,     \* const definitions
  currentPart,      \* let currentPart
  currentChapter,   \* let currentChapter
  ran,              \* the strategies whose code was entered, in order
  pushed,           \* per strategy: the number of provisions it pushed
  visited           \* the akn-section elements with a section number that
                    \* sections.each has visited, in order: the heading of the
                    \* closest part/chapter ancestor of each and the index in
                    \* provisions of the provision pushed for it (0: none)

parseVars == <<ppc, pLeft, pProvisions, pDefinitions, currentPart, currentChapter,
               ran, pushed, visited>>

VARIABLES
  \* ---- extractEuReferences ----
  euText,             \* the argument: the content of a provision
  euRefs,           \* the returned references
  extractDone       \* the call has returned

extractVars == <<euText, euRefs, extractDone>>

VARIABLES
  \* ---- buildDatabase ----
  lpc,              \* position in buildDatabase: loading, committed, aborted
  seedFiles,        \* the seed files the loop has read so far, in order
  tx,               \* the tables as the running transaction sees them
  db,               \* the tables of the database file
  primaryImplementationByDocument

loadVars == <<lpc, seedFiles, tx, db, primaryImplementationByDocument>>

VARIABLES
  \* ---- parseCitation ----
  cpc,              \* position in parseCitation
  citation,         \* the argument; trimmed once the call has begun
  nPieces,          \* the number of pieces the argument was put together from
  tried,            \* the grammars tried so far, in order
  grammar,          \* the grammar the result was built from
  parsedCitation    \* the returned ParsedCitation

citeVars == <<cpc, citation, nPieces, tried, grammar, parsedCitation>>

VARIABLES
  \* ---- fetchAndParseActs (scripts/ingest.ts) ----
  ipc,              \* position in the run: idle, loop
  runs,             \* the number of runs of the pipeline begun so far
  toProcess,        \* const toProcess
  ipos,             \* the index in toProcess of the act the loop is at
  seedDir,          \* SEED_DIR: per seed file name, the record in it or NoFile
  counters,         \* let processed, skipped, failed, totalProvisions
  iterations        \* what each iteration of the loop did, over all runs: the
                    \* run, the seed file name, skipped or the answer of the
                    \* fetch, and the record written (NoFile: none)

ingestVars == <<ipc, runs, toProcess, ipos, seedDir, counters, iterations>>

VARIABLES
  \* ---- formatCitation ----
  style,            \* the argument format
  formatted,        \* formatCitation(parseCitation(citation), style)
  reformatted       \* formatCitation(parseCitation(formatted), style)

formatVars == <<style, formatted, reformatted>>

VARIABLES
  \* ---- validateCitation ----
  corpus,           \* db: the rows of legal_documents and of legal_provisions
  cited,            \* the argument citation
  resolved,         \* let doc, and the lookup that gave it
  validation        \* the returned ValidationResult

validateVars == <<corpus, cited, resolved, validation>>

VARIABLES
  \* ---- document ids and the ID-based grammar ----
  entry,            \* an entry of the act index: actNumber and year
  derivedId,       \* the id derived from entry
  sectionCited,     \* the section k of the citation "<id>, s. <k>"
  idParsed          \* parseCitation("<id>, s. <k>")

docIdVars == <<entry, derivedId, sectionCited, idParsed>>

VARIABLES
  \* ---- discoverActs ----
  dpc,              \* where discoverActs is: idle, fetching, saving, done, failed
  site,             \* what the server holds
  page,             \* let page
  hasMore,          \* let hasMore
  allEntries,       \* const allEntries
  fetchedPages,     \* the pages fetchActIndex was called for, in call order
  savedIndex        \* the content of act-index.json, which is returned

discoverVars == <<dpc, site, page, hasMore, allEntries, fetchedPages, savedIndex>>

VARIABLES
  \* ---- check-updates ----
  upc,              \* where the update checker is
  localDocs,        \* the ids of legal_documents, or that database.db is missing
  indexPage,        \* page of fetchRecentEntries
  recentEntries,    \* entries of fetchRecentEntries
  waited,           \* ms since the request in flight was sent
  responses,        \* how each index-page fetch ended, in call order
  exitCode          \* the exit code of the process

updateVars == <<upc, localDocs, indexPage, recentEntries, waited, responses, exitCode>>

fetchVars == <<callers, elapsed, fpc, attempt, timer, resps, result,
               sinceFirstSent, minFirstGap, sinceCompleted>>

vars == <<fetchVars, dedupeVars, parseVars, extractVars, loadVars, citeVars, ingestVars, formatVars, validateVars, docIdVars, discoverVars, updateVars>>

\* What each component leaves alone
notFetch == <<dedupeVars, parseVars, extractVars, loadVars, citeVars, ingestVars, formatVars, validateVars, docIdVars, discoverVars, updateVars>>
notDedupe == <<fetchVars, parseVars, extractVars, loadVars, citeVars, ingestVars, formatVars, validateVars, docIdVars, discoverVars, updateVars>>
notParse == <<fetchVars, dedupeVars, extractVars, loadVars, citeVars, ingestVars, formatVars, validateVars, docIdVars, discoverVars, updateVars>>
notExtract == <<fetchVars, dedupeVars, parseVars, loadVars, citeVars, ingestVars, formatVars, validateVars, docIdVars, discoverVars, updateVars>>
notLoad == <<fetchVars, dedupeVars, parseVars, extractVars, citeVars, ingestVars, formatVars, validateVars, docIdVars, discoverVars, updateVars>>
notCite == <<fetchVars, dedupeVars, parseVars, extractVars, loadVars, ingestVars, formatVars, validateVars, docIdVars, discoverVars, updateVars>>
notIngest == <<fetchVars, dedupeVars, parseVars, extractVars, loadVars, citeVars, formatVars, validateVars, docIdVars, discoverVars, updateVars>>
notFormat == <<fetchVars, dedupeVars, parseVars, extractVars, loadVars, citeVars, ingestVars, validateVars, docIdVars, discoverVars, updateVars>>
notValidate == <<fetchVars, dedupeVars, parseVars, extractVars, loadVars, citeVars, ingestVars, formatVars, docIdVars, discoverVars, updateVars>>
notDocId == <<fetchVars, dedupeVars, parseVars, extractVars, loadVars, citeVars, ingestVars, formatVars, validateVars, discoverVars, updateVars>>
notDiscover == <<fetchVars, dedupeVars, parseVars, extractVars, loadVars, citeVars, ingestVars, formatVars, validateVars, docIdVars, updateVars>>
notUpdate == <<fetchVars, dedupeVars, parseVars, extractVars, loadVars, citeVars, ingestVars, formatVars, validateVars, docIdVars, discoverVars>>

(***************************************************************************)
(* Generic helpers                                                         *)
(***************************************************************************)
RECURSIVE Pow2(_)
Pow2(n) == IF n = 0 THEN 1 ELSE 2 * Pow2(n - 1)

(***************************************************************************)
(* Fetcher: rateLimit and fetchWithRateLimit                               *)
(***************************************************************************)
MIN_DELAY_MS == 500
DefaultMaxRetries == 3

Tasks == {"t1", "t2"}
Statuses == {200, 404, 429, 503}
TickMs == MIN_DELAY_MS \div 2

NoResult == [kind |-> "none"]
\* fetch() rejected
NetworkFailure == [kind |-> "error", cause |-> "fetch"]
\* throw new Error(`Failed to fetch ${url} after ${maxRetries} retries`)
RetriesExhausted == [kind |-> "error", cause |-> "retries"]

Min(a, b) == IF a < b THEN a ELSE b
Max(a, b) == IF a > b THEN a ELSE b

IsRetryStatus_Any4xx(status) == status >= 400

\* response.status === 429 || response.status >= 500
IsRetryStatus(status) == status = 429 \/ status >= 500

Backoff_FromOneSecond(a) == Pow2(a) * 1000

\* Math.pow(2, attempt + 1) * 1000
Backoff(a) == Pow2(a + 1) * 1000

\* The body of the k-th response of a call: each response carries its own body.
BodyOf(k) == k

\* let lastRequestTime = 0: the first Date.now() is far more than MIN_DELAY_MS
\* after it.
FetchStart ==
  /\ elapsed = MIN_DELAY_MS
  /\ fpc = [p \in Tasks |-> "idle"]
  /\ attempt = [p \in Tasks |-> 0]
  /\ timer = [p \in Tasks |-> 0]
  /\ resps = [p \in Tasks |-> <<>>]
  /\ result = [p \in Tasks |-> NoResult]
  /\ sinceFirstSent = -1
  /\ minFirstGap = MIN_DELAY_MS
  /\ sinceCompleted = -1

\* One task calling fetchWithRateLimit again and again, as the ingestion loop does.
FetchInit ==
  /\ callers = {"t1"}
  /\ FetchStart

\* Several tasks whose calls may overlap in time.
OverlapInit ==
  /\ callers = Tasks
  /\ FetchStart

CallFetch_NoWait(p) ==
  /\ fpc[p] = "idle"
  /\ fpc' = [fpc EXCEPT ![p] = "send"]
  /\ elapsed' = 0
  /\ UNCHANGED <<callers, attempt, timer, resps, result, sinceFirstSent,
                 minFirstGap, sinceCompleted>>
  /\ UNCHANGED notFetch

\* fetchWithRateLimit is called; rateLimit runs up to its first await.
CallFetch(p) ==
  /\ fpc[p] = "idle"
  /\ IF elapsed < MIN_DELAY_MS
       THEN /\ fpc' = [fpc EXCEPT ![p] = "rl_wait"]
            /\ timer' = [timer EXCEPT ![p] = MIN_DELAY_MS - elapsed]
            /\ UNCHANGED elapsed
       ELSE /\ fpc' = [fpc EXCEPT ![p] = "send"]
            /\ elapsed' = 0
            /\ UNCHANGED timer
  /\ UNCHANGED <<callers, attempt, resps, result, sinceFirstSent, minFirstGap, sinceCompleted>>
  /\ UNCHANGED notFetch

\* The setTimeout of rateLimit fires; lastRequestTime = Date.now().
RateLimitWake(p) ==
  /\ fpc[p] = "rl_wait"
  /\ timer[p] = 0
  /\ elapsed' = 0
  /\ fpc' = [fpc EXCEPT ![p] = "send"]
  /\ UNCHANGED <<callers, attempt, timer, resps, result, sinceFirstSent, minFirstGap, sinceCompleted>>
  /\ UNCHANGED notFetch

\* fetch(url, ...) is issued.
SendRequest(p) ==
  /\ fpc[p] = "send"
  /\ fpc' = [fpc EXCEPT ![p] = "await"]
  /\ IF attempt[p] = 0
       THEN /\ sinceFirstSent' = 0
            /\ minFirstGap' = IF sinceFirstSent < 0 THEN minFirstGap
                              ELSE Min(minFirstGap, sinceFirstSent)
       ELSE UNCHANGED <<sinceFirstSent, minFirstGap>>
  /\ UNCHANGED <<callers, elapsed, attempt, timer, resps, result, sinceCompleted>>
  /\ UNCHANGED notFetch

\* The response arrives; the body of the loop runs to its next await or return.
Respond(p, status) ==
  /\ fpc[p] = "await"
  /\ resps' = [resps EXCEPT ![p] = Append(@, status)]
  /\ IF IsRetryStatus(status) /\ attempt[p] < DefaultMaxRetries
       THEN /\ fpc' = [fpc EXCEPT ![p] = "backoff"]
            /\ timer' = [timer EXCEPT ![p] = Backoff(attempt[p])]
            /\ UNCHANGED result
       ELSE /\ fpc' = [fpc EXCEPT ![p] = "done"]
            /\ result' = [result EXCEPT ![p] =
                            [kind |-> "returned", status |-> status,
                             body |-> BodyOf(Len(resps[p]) + 1)]]
            /\ UNCHANGED timer
  /\ sinceCompleted' = 0
  /\ UNCHANGED <<callers, elapsed, attempt, sinceFirstSent, minFirstGap>>
  /\ UNCHANGED notFetch

\* fetch() itself rejects (no HTTP response): the rejection reaches the caller.
NetworkError(p) ==
  /\ fpc[p] = "await"
  /\ fpc' = [fpc EXCEPT ![p] = "done"]
  /\ result' = [result EXCEPT ![p] = NetworkFailure]
  /\ sinceCompleted' = 0
  /\ UNCHANGED <<callers, elapsed, attempt, timer, resps, sinceFirstSent, minFirstGap>>
  /\ UNCHANGED notFetch

\* The backoff setTimeout fires; continue: attempt++ and the loop test. Leaving
\* the loop reaches the throw after it.
BackoffWake(p) ==
  /\ fpc[p] = "backoff"
  /\ timer[p] = 0
  /\ attempt' = [attempt EXCEPT ![p] = @ + 1]
  /\ IF attempt[p] + 1 <= DefaultMaxRetries
       THEN /\ fpc' = [fpc EXCEPT ![p] = "send"]
            /\ UNCHANGED result
       ELSE /\ fpc' = [fpc EXCEPT ![p] = "done"]
            /\ result' = [result EXCEPT ![p] = RetriesExhausted]
  /\ UNCHANGED <<callers, elapsed, timer, resps, sinceFirstSent, minFirstGap, sinceCompleted>>
  /\ UNCHANGED notFetch

\* The caller takes the result; the call's locals are gone and the task may
\* call again.
Finish(p) ==
  /\ fpc[p] = "done"
  /\ fpc' = [fpc EXCEPT ![p] = "idle"]
  /\ attempt' = [attempt EXCEPT ![p] = 0]
  /\ resps' = [resps EXCEPT ![p] = <<>>]
  /\ result' = [result EXCEPT ![p] = NoResult]
  /\ UNCHANGED <<callers, elapsed, timer, sinceFirstSent, minFirstGap, sinceCompleted>>
  /\ UNCHANGED notFetch

\* TickMs pass: Date.now() grows, pending timers come closer (a timer that is
\* due may fire late). A task that has left rateLimit or a backoff issues its
\* fetch in the same turn of the event loop, before any time passes.
Tick ==
  /\ \A p \in callers : fpc[p] # "send"
  /\ elapsed' = Min(elapsed + TickMs, MIN_DELAY_MS)
  /\ timer' = [p \in Tasks |-> Max(timer[p] - TickMs, 0)]
  /\ sinceFirstSent' = IF sinceFirstSent < 0 THEN sinceFirstSent
                       ELSE Min(sinceFirstSent + TickMs, MIN_DELAY_MS)
  /\ sinceCompleted' = IF sinceCompleted < 0 THEN sinceCompleted
                       ELSE Min(sinceCompleted + TickMs, MIN_DELAY_MS)
  /\ UNCHANGED <<callers, fpc, attempt, resps, result, minFirstGap>>
  /\ UNCHANGED notFetch



FetchNext ==
  \/ \E p \in callers : CallFetch(p)
  \/ \E p \in callers : RateLimitWake(p)
  \/ \E p \in callers : SendRequest(p)
  \/ \E p \in callers, s \in Statuses : Respond(p, s)
  \/ \E p \in callers : NetworkError(p)
  \/ \E p \in callers : BackoffWake(p)
  \/ \E p \in callers : Finish(p)
  \/ Tick

(***************************************************************************)
(* Claims about the fetcher                                                *)
(***************************************************************************)
AllRetryable(seq) == \A i \in 1..Len(seq) : seq[i] = 429 \/ seq[i] >= 500

C1_Witness ==
  \E p \in Tasks : fpc[p] = "done" /\ Len(resps[p]) = 4 /\ AllRetryable(resps[p])

\* C2: a response whose status is neither 429 nor >= 500 is the last response of
\* its call (at most the 4th), ends the call at once, and its status and body are
\* what the call returns.
C2_FirstFinalResponseReturned ==
  \A p \in Tasks :
    /\ Len(resps[p]) <= 4
    /\ \A i \in 1..Len(resps[p]) :
         (resps[p][i] # 429 /\ resps[p][i] < 500)
           => /\ i = Len(resps[p])
              /\ fpc[p] = "done"
              /\ result[p] = [kind |-> "returned", status |-> resps[p][i],
                              body |-> BodyOf(i)]

\* Three 503 responses followed by a 200: the 200 and its body are returned.
C2_Witness ==
  \E p \in Tasks :
    /\ resps[p] = <<503, 503, 503, 200>>
    /\ result[p] = [kind |-> "returned", status |-> 200, body |-> BodyOf(4)]

\* A 404 on the first attempt has been returned with no retry.
C2_Witness404 ==
  \E p \in Tasks : resps[p] = <<404>> /\ fpc[p] = "done" /\ result[p].status = 404

\* C3: the first requests of any two calls are sent at least 500 ms apart, also
\* when the calls overlap in time.
C3_FirstRequestsSpaced == minFirstGap >= 500

\* The k-th 429/5xx response of a call has just arrived and the call starts
\* the wait before its k-th retry.
StartsWait(p, k) ==
  fpc[p] = "await" /\ fpc'[p] = "backoff" /\ Len(resps'[p]) = k

\* C16 (as stated): the waits before the first, second and third retry of a
\* 429/5xx response are 1 s, 2 s and 4 s.
C16_WaitsOneTwoFour ==
  [][\A p \in Tasks :
       /\ StartsWait(p, 1) => timer'[p] = 1000
       /\ StartsWait(p, 2) => timer'[p] = 2000
       /\ StartsWait(p, 3) => timer'[p] = 4000]_vars

\* C16 (amended): the waits before the first, second and third retry of a
\* 429/5xx response are 2 s, 4 s and 8 s, and no retry is sent before its wait
\* is over.
C16_WaitsTwoFourEight ==
  [][\A p \in Tasks :
       /\ StartsWait(p, 1) => timer'[p] = 2000
       /\ StartsWait(p, 2) => timer'[p] = 4000
       /\ StartsWait(p, 3) => timer'[p] = 8000
       /\ (fpc[p] = "backoff" /\ fpc'[p] # "backoff") => timer[p] = 0]_vars

\* The third 429/5xx response of a call has arrived and its wait of 8 s has begun.
C16_Witness ==
  \E p \in Tasks :
    fpc[p] = "backoff" /\ Len(resps[p]) = 3 /\ AllRetryable(resps[p])
      /\ timer[p] = 8000

\* The first request of a call is being sent.
SendsFirstRequest(p) ==
  fpc[p] = "send" /\ fpc'[p] = "await" /\ attempt[p] = 0

\* C17 (as stated): with calls made one after the other, the first request of a
\* call is sent no sooner than 500 ms after the latest request of the previous
\* call completed.
C17_SpacedFromPreviousEnd ==
  [][\A p \in Tasks :
       SendsFirstRequest(p) => (sinceCompleted < 0 \/ sinceCompleted >= 500)]_vars

\* C17 (amended): with calls made one after the other, the first request of a
\* call is sent no sooner than 500 ms after the first request of the previous
\* call was sent (the instant rateLimit stored in lastRequestTime), however
\* shortly before the previous call's latest request completed.
C17_SpacedFromPreviousStart ==
  [][\A p \in Tasks :
       SendsFirstRequest(p) => (sinceFirstSent < 0 \/ sinceFirstSent >= 500)]_vars

\* A call has just sent its first request although the previous call's latest
\* request completed less than 500 ms before.
C17_Witness ==
  \E p \in Tasks :
    /\ fpc[p] = "await" /\ attempt[p] = 0
    /\ sinceFirstSent = 0
    /\ sinceCompleted >= 0 /\ sinceCompleted < 500

(***************************************************************************)
(* Strings: sequences of one-character strings                             *)
(***************************************************************************)
\* \s of the regular expressions and of String.prototype.trim
IsSpace(c) == c \in {" ", "\t", "\n"}

RECURSIVE TrimStart(_)
TrimStart(str) ==
  IF str # <<>> /\ IsSpace(Head(str)) THEN TrimStart(Tail(str)) ELSE str

RECURSIVE TrimEnd(_)
TrimEnd(str) ==
  IF str # <<>> /\ IsSpace(str[Len(str)])
    THEN TrimEnd(SubSeq(str, 1, Len(str) - 1))
    ELSE str

\* String.prototype.trim
Trim(str) == TrimEnd(TrimStart(str))

\* text.replace(/\s+/g, ' '): every run of whitespace becomes one space
RECURSIVE CollapseSpaces(_)
CollapseSpaces(str) ==
  IF str = <<>> THEN <<>>
  ELSE IF IsSpace(Head(str))
    THEN <<" ">> \o CollapseSpaces(TrimStart(str))
    ELSE <<Head(str)>> \o CollapseSpaces(Tail(str))

\* normalizeWhitespace(text) = text.replace(/\s+/g, ' ').trim()
normalizeWhitespace(text) == Trim(CollapseSpaces(text))

(***************************************************************************)
(* dedupeProvisions and pickPreferredProvision                             *)
(***************************************************************************)
\* Bound of the deduplicator model: the length of the provision list
MaxProvisions == 3

\* undefined: no string (a string is a sequence of one-character strings)
Undefined == <<"undefined">>

\* a ?? b
Coalesce(a, b) == IF a = Undefined THEN b ELSE a

RefValues == { <<"1">>, <<" ", "1">>, <<"2">> }
TitleValues == { Undefined, <<"T">> }
ContentValues == { <<"a", "b">>, <<"a", " ", "b">>, <<"a", " ", " ", "b">>,
                   <<"a", "b", "c">> }

ProvisionSeeds ==
  [provision_ref : RefValues, title : TitleValues, content : ContentValues]

pickPreferredProvision_KeepsLast(existing, incoming) ==
  IF Len(normalizeWhitespace(incoming.content)) >= Len(normalizeWhitespace(existing.content))
    THEN [incoming EXCEPT !.title = Coalesce(incoming.title, existing.title)]
    ELSE [existing EXCEPT !.title = Coalesce(existing.title, incoming.title)]

pickPreferredProvision(existing, incoming) ==
  LET existingContent == normalizeWhitespace(existing.content)
      incomingContent == normalizeWhitespace(incoming.content)
  IN IF Len(incomingContent) > Len(existingContent)
       THEN [incoming EXCEPT !.title = Coalesce(incoming.title, existing.title)]
       ELSE [existing EXCEPT !.title = Coalesce(existing.title, incoming.title)]

DedupeRef_Untrimmed(provision) == provision.provision_ref

\* const ref = provision.provision_ref.trim()
DedupeRef(provision) == Trim(provision.provision_ref)

\* byRef is a Map: a list of entries in insertion order; set() of a present key
\* replaces the value in place.
MapHas(map, key) == \E i \in 1..Len(map) : map[i].key = key
MapIndex(map, key) == CHOOSE i \in 1..Len(map) : map[i].key = key
MapGet(map, key) == map[MapIndex(map, key)].value
MapSet(map, key, value) ==
  IF MapHas(map, key)
    THEN [map EXCEPT ![MapIndex(map, key)] = [key |-> key, value |-> value]]
    ELSE Append(map, [key |-> key, value |-> value])
\* Array.from(map.values())
MapValues(map) == [i \in 1..Len(map) |-> map[i].value]

DedupeStep_ComparesRawContent(st, provision) ==
  LET ref == DedupeRef(provision) IN
  IF ~MapHas(st.byRef, ref)
    THEN [st EXCEPT !.byRef = MapSet(@, ref, [provision EXCEPT !.provision_ref = ref])]
    ELSE
      LET existing == MapGet(st.byRef, ref)
      IN [byRef |-> MapSet(st.byRef, ref, pickPreferredProvision(existing, provision)),
          stats |-> [duplicate_refs |-> st.stats.duplicate_refs + 1,
                     conflicting_duplicates |->
                       st.stats.conflicting_duplicates
                         + (IF existing.content # provision.content THEN 1 ELSE 0)]]

\* One iteration of the loop of dedupeProvisions over st = [byRef, stats].
DedupeStep(st, provision) ==
  LET ref == DedupeRef(provision) IN
  IF ~MapHas(st.byRef, ref)
    THEN [st EXCEPT !.byRef = MapSet(@, ref, [provision EXCEPT !.provision_ref = ref])]
    ELSE
      LET existing == MapGet(st.byRef, ref)
          existingContent == normalizeWhitespace(existing.content)
          incomingContent == normalizeWhitespace(provision.content)
      IN [byRef |-> MapSet(st.byRef, ref, pickPreferredProvision(existing, provision)),
          stats |-> [duplicate_refs |-> st.stats.duplicate_refs + 1,
                     conflicting_duplicates |->
                       st.stats.conflicting_duplicates
                         + (IF existingContent # incomingContent THEN 1 ELSE 0)]]

RECURSIVE DedupeLoop(_, _)
DedupeLoop(st, list) ==
  IF list = <<>> THEN st ELSE DedupeLoop(DedupeStep(st, Head(list)), Tail(list))

dedupeProvisions(list) ==
  LET final == DedupeLoop([byRef |-> <<>>,
                           stats |-> [duplicate_refs |-> 0, conflicting_duplicates |-> 0]],
                          list)
  IN [deduped |-> MapValues(final.byRef), stats |-> final.stats]

NotCalled ==
  [deduped |-> <<>>, stats |-> [duplicate_refs |-> -1, conflicting_duplicates |-> -1]]

DedupeInit ==
  /\ provisions = <<>>
  /\ dedupeResult = NotCalled

\* The seed file holds one more provision.
AddProvision(provision) ==
  /\ dedupeResult = NotCalled
  /\ Len(provisions) < MaxProvisions
  /\ provisions' = Append(provisions, provision)
  /\ UNCHANGED dedupeResult
  /\ UNCHANGED notDedupe

\* const { deduped, stats } = dedupeProvisions(seed.provisions)
CallDedupe ==
  /\ dedupeResult = NotCalled
  /\ provisions # <<>>
  /\ dedupeResult' = dedupeProvisions(provisions)
  /\ UNCHANGED provisions
  /\ UNCHANGED notDedupe

DedupeNext ==
  \/ \E provision \in ProvisionSeeds : AddProvision(provision)
  \/ CallDedupe

(***************************************************************************)
(* Claims about the deduplicator                                           *)
(***************************************************************************)
DedupeReturned == dedupeResult # NotCalled
Deduped == dedupeResult.deduped

\* C5: after dedupeProvisions no two output provisions share a provision_ref,
\* and every trimmed provision_ref of the input is the (trimmed) ref of exactly
\* one output provision.
C5_RefsUniqueAndCovered ==
  DedupeReturned =>
    /\ \A i, j \in 1..Len(Deduped) :
         i # j => Deduped[i].provision_ref # Deduped[j].provision_ref
    /\ \A k \in 1..Len(provisions) :
         Cardinality({ i \in 1..Len(Deduped) :
                         Trim(Deduped[i].provision_ref) = Trim(provisions[k].provision_ref) }) = 1

\* Three provisions, two of which have the same trimmed ref written differently.
C5_Witness ==
  /\ DedupeReturned
  /\ Len(provisions) = 3
  /\ Len(Deduped) = 2
  /\ \E i, j \in 1..3 :
       /\ provisions[i].provision_ref # provisions[j].provision_ref
       /\ Trim(provisions[i].provision_ref) = Trim(provisions[j].provision_ref)

NormLen(provision) == Len(normalizeWhitespace(provision.content))
SameRef(k, provision) == Trim(provisions[k].provision_ref) = Trim(provision.provision_ref)

\* C6: the provision retained for a ref has the content of the first input
\* provision, in input order, whose normalized content length is the maximum
\* over the input provisions with that trimmed ref.
C6_LongestFirstSeenRetained ==
  DedupeReturned =>
    \A i \in 1..Len(Deduped) :
      \E k \in 1..Len(provisions) :
        /\ SameRef(k, Deduped[i])
        /\ Deduped[i].content = provisions[k].content
        /\ \A m \in 1..Len(provisions) :
             SameRef(m, Deduped[i]) =>
               /\ NormLen(provisions[m]) <= NormLen(provisions[k])
               /\ (NormLen(provisions[m]) = NormLen(provisions[k]) => k <= m)

\* A shorter provision came first, then two different ones of the maximal length:
\* the first of the two is retained.
C6_Witness ==
  /\ DedupeReturned
  /\ Len(provisions) = 3
  /\ Len(Deduped) = 1
  /\ NormLen(provisions[1]) < NormLen(provisions[2])
  /\ NormLen(provisions[2]) = NormLen(provisions[3])
  /\ provisions[2].content # provisions[3].content
  /\ Deduped[1].content = provisions[2].content

Stats == dedupeResult.stats
TrimmedRefs == { Trim(provisions[k].provision_ref) : k \in 1..Len(provisions) }
NormContent(k) == normalizeWhitespace(provisions[k].content)

\* C20: duplicate_refs is the number of input provisions minus the number of
\* distinct trimmed refs; conflicting_duplicates is at most duplicate_refs and is
\* 0 exactly when all input provisions that share a trimmed ref have the same
\* whitespace-normalized content; for an input of two provisions of one ref
\* whose normalized contents have equal length and differ it is 1.
C20_StatsExact ==
  DedupeReturned =>
    /\ Stats.duplicate_refs = Len(provisions) - Cardinality(TrimmedRefs)
    /\ Stats.conflicting_duplicates >= 0
    /\ Stats.conflicting_duplicates <= Stats.duplicate_refs
    /\ Stats.conflicting_duplicates = 0 <=>
         \A i, j \in 1..Len(provisions) :
           SameRef(i, provisions[j]) => NormContent(i) = NormContent(j)
    /\ ( /\ Len(provisions) = 2
         /\ SameRef(1, provisions[2])
         /\ Len(NormContent(1)) = Len(NormContent(2))
         /\ NormContent(1) # NormContent(2) )
         => Stats.conflicting_duplicates = 1

\* Three provisions of one ref, the second differing from the first in
\* whitespace only, the third in content: two duplicates, one of them conflicting.
C20_Witness ==
  /\ DedupeReturned
  /\ Len(provisions) = 3
  /\ provisions[1].content # provisions[2].content
  /\ NormContent(1) = NormContent(2)
  /\ Stats.duplicate_refs = 2
  /\ Stats.conflicting_duplicates = 1

\* Two provisions of one ref with contents of equal length that differ.
C20_WitnessEqualLength ==
  /\ DedupeReturned
  /\ Len(provisions) = 2
  /\ SameRef(1, provisions[2])
  /\ Len(NormContent(1)) = Len(NormContent(2))
  /\ NormContent(1) # NormContent(2)
  /\ Stats.conflicting_duplicates = 1

\* C28: dedupeProvisions is idempotent.  Applied to its own output it
\* returns the same provisions (same provision_ref, title and content, in
\* the same order) with duplicate_refs = 0 and conflicting_duplicates = 0,
\* and every provision_ref of the output is in trimmed form, also when the
\* retained provision is an incoming one whose ref had surrounding
\* whitespace.
C28_DedupeIdempotent ==
  DedupeReturned =>
    /\ dedupeProvisions(Deduped).deduped = Deduped
    /\ dedupeProvisions(Deduped).stats =
         [duplicate_refs |-> 0, conflicting_duplicates |-> 0]
    /\ \A i \in 1..Len(Deduped) :
         Deduped[i].provision_ref = Trim(Deduped[i].provision_ref)

\* the same for lists whose refs carry no surrounding whitespace
C28_DedupeIdempotentOnTrimmedRefs ==
  (DedupeReturned
     /\ \A k \in 1..Len(provisions) :
          provisions[k].provision_ref = Trim(provisions[k].provision_ref)) =>
    /\ dedupeProvisions(Deduped).deduped = Deduped
    /\ dedupeProvisions(Deduped).stats =
         [duplicate_refs |-> 0, conflicting_duplicates |-> 0]

\* the retained provision is an incoming one whose ref had whitespace
C28_UntrimmedRetained ==
  /\ DedupeReturned
  /\ Len(provisions) = 2
  /\ provisions[1].provision_ref = <<"1">>
  /\ provisions[2].provision_ref = <<" ", "1">>
  /\ Len(Deduped) = 1
  /\ Deduped[1].content = provisions[2].content
  /\ Deduped[1].content # provisions[1].content

(***************************************************************************)
(* parseActContent: the three strategies                                   *)
(* A heading is a sequence of words; a content is a sequence of clauses,   *)
(* each plain text or a definition clause '"term" means definition;'.      *)
(***************************************************************************)
\* Bounds of the parser model: elements visited by each strategy's loop
MaxSections == 2
MaxTocItems == 2
MaxMatches == 2

Strategies == {"structured", "toc", "regex"}

\* String.prototype.toLowerCase / the i flag, on the words of the model
ToLower(w) ==
  CASE w = "PART" -> "part"
    [] w = "Part" -> "part"
    [] w = "CHAPTER" -> "chapter"
    [] w = "Interpretation" -> "interpretation"
    [] w = "Definitions" -> "definitions"
    [] w = "Regulation" -> "regulation"
    [] w = "Directive" -> "directive"
    [] OTHER -> w

SectionNums == {"1", "2"}
NoMatch == "no match"

HeadingValues == { <<"Interpretation">>, <<"Application">>, <<>> }
AncestorHeadings == { <<"PART", "I">>, <<"Part", "II">>, <<"CHAPTER", "1">>,
                      <<"Schedule">>, <<"PART">> }
NoAncestor == <<"none">>

TextClause == [kind |-> "text"]
DefClause(term) == [kind |-> "def", term |-> term, definition |-> "meaning"]
ContentTexts == { <<>>, <<TextClause>>, <<DefClause("act"), TextClause>> }

\* $(`#${item.id}`) finds nothing
NoElement == << [kind |-> "missing"] >>

\* section.akn-section elements
SectionElements ==
  [sec : SectionNums \cup {NoMatch},
   heading : HeadingValues,
   ancestor : AncestorHeadings \cup {NoAncestor},
   content : ContentTexts]

\* Items of the table of contents, in the order the recursive walk visits them
TocItems ==
  [type : {"section", "part"},
   sec : SectionNums \cup {NoMatch},
   element : ContentTexts \cup {NoElement},
   heading : HeadingValues]

\* $('script#akn_toc_json'): absent, not valid JSON, or a list of items
TocScripts ==
  { [kind |-> "absent", items |-> 0], [kind |-> "invalid", items |-> 0] }
    \cup { [kind |-> "json", items |-> n] : n \in 0..MaxTocItems }

\* Matches of sectionPattern in the text of the body
RegexMatches ==
  [sec : SectionNums, title : HeadingValues, content : ContentTexts]

\* /^PART\s/i.test(partHeading), /^CHAPTER\s/i.test(partHeading)
StartsWithWord(heading, word) ==
  Len(heading) >= 2 /\ ToLower(heading[1]) = word

\* /\b(?:interpretation|definitions?)\b/i.test(sectionTitle)
IsDefinitionsTitle(title) ==
  \E i \in 1..Len(title) : ToLower(title[i]) \in {"interpretation", "definition", "definitions"}

\* extractDefinitionsFromContent: one Definition for each match of defPattern
RECURSIVE extractDefinitionsFromContent(_, _)
extractDefinitionsFromContent(content, sourceProvision) ==
  IF content = <<>> THEN <<>>
  ELSE (IF Head(content).kind = "def"
          THEN << [term |-> Head(content).term,
                   definition |-> Head(content).definition,
                   source_provision |-> sourceProvision] >>
          ELSE <<>>)
       \o extractDefinitionsFromContent(Tail(content), sourceProvision)

\* `s${sectionNum}`
ProvisionRef(sectionNum) == <<"s", sectionNum>>

PartContext_ResetEachSection(ancestor, current) ==
  IF ancestor # NoAncestor /\ StartsWithWord(ancestor, "part")
    THEN ancestor ELSE Undefined

\* if (parentSubpart.length > 0) { ... if (/^PART\s/i.test(partHeading))
\* currentPart = partHeading; }
PartContext(ancestor, current) ==
  IF ancestor # NoAncestor /\ StartsWithWord(ancestor, "part")
    THEN ancestor ELSE current

\* if (parentSubpart.length > 0) { ... if (/^CHAPTER\s/i.test(partHeading))
\* currentChapter = partHeading; }
ChapterContext(ancestor, current) ==
  IF ancestor # NoAncestor /\ StartsWithWord(ancestor, "chapter")
    THEN ancestor ELSE current

ShouldFallback_Always(list) == TRUE

\* if (provisions.length === 0)
ShouldFallback(list) == Len(list) = 0

ParseInit ==
  /\ ppc = "start"
  /\ pLeft = 0
  /\ pProvisions = <<>>
  /\ pDefinitions = <<>>
  /\ currentPart = Undefined
  /\ currentChapter = Undefined
  /\ ran = <<>>
  /\ pushed = [st \in Strategies |-> 0]
  /\ visited = <<>>

\* parseActContent is called; const sections = $('section.akn-section') finds n
\* elements.
BeginParse(n) ==
  /\ ppc = "start"
  /\ ppc' = "structured"
  /\ pLeft' = n
  /\ ran' = Append(ran, "structured")
  /\ UNCHANGED <<pProvisions, pDefinitions, currentPart, currentChapter, pushed, visited>>
  /\ UNCHANGED notParse

\* One call of the callback of sections.each.
SectionEach(el) ==
  /\ ppc = "structured"
  /\ pLeft > 0
  /\ pLeft' = pLeft - 1
  /\ IF el.sec = NoMatch
       THEN UNCHANGED <<pProvisions, pDefinitions, currentPart, currentChapter,
                        pushed, visited>>
       ELSE
         LET provisionRef == ProvisionRef(el.sec)
             part == PartContext(el.ancestor, currentPart)
             chapter == ChapterContext(el.ancestor, currentChapter)
         IN /\ currentPart' = part
            /\ currentChapter' = chapter
            /\ visited' = Append(visited,
                  [ancestor |-> el.ancestor,
                   provision |-> IF el.content # <<>> THEN Len(pProvisions) + 1
                                 ELSE 0])
            /\ IF el.content # <<>>
                 THEN /\ pProvisions' = Append(pProvisions,
                           [provision_ref |-> provisionRef, part |-> part,
                            chapter |-> chapter, section |-> el.sec,
                            title |-> el.heading, content |-> el.content])
                      /\ pushed' = [pushed EXCEPT !["structured"] = @ + 1]
                      /\ pDefinitions' =
                           IF IsDefinitionsTitle(el.heading)
                             THEN pDefinitions
                                    \o extractDefinitionsFromContent(el.content, provisionRef)
                             ELSE pDefinitions
                 ELSE UNCHANGED <<pProvisions, pDefinitions, pushed>>
  /\ UNCHANGED <<ppc, ran>>
  /\ UNCHANGED notParse

\* sections.each is over; if (provisions.length === 0) the table of contents is
\* looked for: the script is absent, is not valid JSON, or lists n items.
BeginToc(script) ==
  /\ ppc = "structured"
  /\ pLeft = 0
  /\ IF ShouldFallback(pProvisions)
       THEN /\ ran' = Append(ran, "toc")
            /\ IF script.kind \in {"absent", "invalid"}
                 THEN ppc' = "regex" /\ pLeft' = 0
                 ELSE ppc' = "toc" /\ pLeft' = script.items
       ELSE /\ ppc' = "regex"
            /\ UNCHANGED <<pLeft, ran>>
  /\ UNCHANGED <<pProvisions, pDefinitions, currentPart, currentChapter, pushed, visited>>
  /\ UNCHANGED notParse

\* One iteration of the loop of extractSectionsFromToc (the walk is depth first).
TocItem(item) ==
  /\ ppc = "toc"
  /\ pLeft > 0
  /\ pLeft' = pLeft - 1
  /\ IF item.type = "section" /\ item.sec # NoMatch
          /\ item.element # NoElement /\ item.element # <<>>
       THEN /\ pProvisions' = Append(pProvisions,
                 [provision_ref |-> ProvisionRef(item.sec), part |-> Undefined,
                  chapter |-> Undefined, section |-> item.sec,
                  title |-> item.heading, content |-> item.element])
            /\ pushed' = [pushed EXCEPT !["toc"] = @ + 1]
       ELSE UNCHANGED <<pProvisions, pushed>>
  /\ UNCHANGED <<ppc, pDefinitions, currentPart, currentChapter, ran, visited>>
  /\ UNCHANGED notParse

\* The walk throws (an item that is no object, an id that is no selector): the
\* catch ends the strategy with the provisions pushed so far.
TocThrow ==
  /\ ppc = "toc"
  /\ pLeft > 0
  /\ ppc' = "regex"
  /\ pLeft' = 0
  /\ UNCHANGED <<pProvisions, pDefinitions, currentPart, currentChapter, ran, pushed, visited>>
  /\ UNCHANGED notParse

\* The walk is over.
EndToc ==
  /\ ppc = "toc"
  /\ pLeft = 0
  /\ ppc' = "regex"
  /\ UNCHANGED <<pLeft, pProvisions, pDefinitions, currentPart, currentChapter, ran, pushed, visited>>
  /\ UNCHANGED notParse

\* if (provisions.length === 0) sectionPattern is run over the text of the body,
\* where it has n matches.
BeginRegex(n) ==
  /\ ppc = "regex"
  /\ IF ShouldFallback(pProvisions)
       THEN /\ ran' = Append(ran, "regex")
            /\ ppc' = "matches"
            /\ pLeft' = n
       ELSE /\ ppc' = "done"
            /\ UNCHANGED <<pLeft, ran>>
  /\ UNCHANGED <<pProvisions, pDefinitions, currentPart, currentChapter, pushed, visited>>
  /\ UNCHANGED notParse

\* One iteration of the while loop over the matches of sectionPattern.
RegexMatch(m) ==
  /\ ppc = "matches"
  /\ pLeft > 0
  /\ pLeft' = pLeft - 1
  /\ IF m.content # <<>>
       THEN /\ pProvisions' = Append(pProvisions,
                 [provision_ref |-> ProvisionRef(m.sec), part |-> Undefined,
                  chapter |-> Undefined, section |-> m.sec,
                  title |-> m.title, content |-> m.content])
            /\ pushed' = [pushed EXCEPT !["regex"] = @ + 1]
       ELSE UNCHANGED <<pProvisions, pushed>>
  /\ UNCHANGED <<ppc, pDefinitions, currentPart, currentChapter, ran, visited>>
  /\ UNCHANGED notParse

\* No more match: return { id, ..., provisions, definitions }.
EndRegex ==
  /\ ppc = "matches"
  /\ pLeft = 0
  /\ ppc' = "done"
  /\ UNCHANGED <<pLeft, pProvisions, pDefinitions, currentPart, currentChapter, ran, pushed, visited>>
  /\ UNCHANGED notParse

ParseNext ==
  \/ \E n \in 0..MaxSections : BeginParse(n)
  \/ \E el \in SectionElements : SectionEach(el)
  \/ \E script \in TocScripts : BeginToc(script)
  \/ \E item \in TocItems : TocItem(item)
  \/ TocThrow
  \/ EndToc
  \/ \E n \in 0..MaxMatches : BeginRegex(n)
  \/ \E m \in RegexMatches : RegexMatch(m)
  \/ EndRegex

(***************************************************************************)
(* Claims about parseActContent                                            *)
(***************************************************************************)
IsPrefix(a, b) == Len(a) <= Len(b) /\ a = SubSeq(b, 1, Len(a))

\* C4: the strategies are entered in the order structured-markup, table of
\* contents, regex; the table of contents contributes provisions only if the
\* structured markup yielded none, the regex only if both yielded none; so the
\* provisions come from at most one strategy; and a strategy is entered whenever
\* the ones before it yielded none.
C4_OrderedFirstYieldWins ==
  /\ IsPrefix(ran, <<"structured", "toc", "regex">>)
  /\ pushed["toc"] > 0 => pushed["structured"] = 0
  /\ pushed["regex"] > 0 => (pushed["structured"] = 0 /\ pushed["toc"] = 0)
  /\ \E st \in Strategies : Len(pProvisions) = pushed[st]
  /\ ppc = "done" =>
       /\ (pushed["structured"] = 0 => Len(ran) >= 2)
       /\ (pushed["structured"] = 0 /\ pushed["toc"] = 0 => Len(ran) = 3)
       /\ (pushed["structured"] > 0 => ran = <<"structured">>)
       /\ (pushed["toc"] > 0 => ran = <<"structured", "toc">>)

\* The page had akn-section elements that yielded nothing, a table of contents
\* that yielded a provision, and the regex was not entered.
C4_Witness ==
  /\ ppc = "done"
  /\ ran = <<"structured", "toc">>
  /\ pushed["toc"] > 0
  /\ Len(pProvisions) = pushed["toc"]

\* All three strategies were entered and the regex yielded the provisions.
C4_WitnessRegex ==
  /\ ppc = "done"
  /\ ran = <<"structured", "toc", "regex">>
  /\ pushed["regex"] = 2

\* The heading of an ancestor that is a part (a chapter): it begins with the
\* word PART (CHAPTER), in any case, followed by more text.
IsPartHeading(h) == h # NoAncestor /\ Len(h) >= 2 /\ ToLower(h[1]) = "part"
IsChapterHeading(h) == h # NoAncestor /\ Len(h) >= 2 /\ ToLower(h[1]) = "chapter"

\* The heading of the latest part among the ancestors of the first n visited
\* sections; undefined when none of them has a part ancestor.
RECURSIVE LatestPart(_)
LatestPart(n) ==
  IF n = 0 THEN Undefined
  ELSE IF IsPartHeading(visited[n].ancestor) THEN visited[n].ancestor
  ELSE LatestPart(n - 1)

RECURSIVE LatestChapter(_)
LatestChapter(n) ==
  IF n = 0 THEN Undefined
  ELSE IF IsChapterHeading(visited[n].ancestor) THEN visited[n].ancestor
  ELSE LatestChapter(n - 1)

\* C18: in the structured-markup strategy the part and chapter context is
\* running state of the one pass: after each section, the current part (chapter)
\* is the heading of the latest part (chapter) ancestor met so far, and every
\* provision carries the context as it was when its section was visited, also
\* when its own section has no such ancestor; the context is never reset.
C18_ContextIsRunningState ==
  /\ currentPart = LatestPart(Len(visited))
  /\ currentChapter = LatestChapter(Len(visited))
  /\ \A i \in 1..Len(visited) :
       visited[i].provision # 0 =>
         /\ visited[i].provision \in 1..Len(pProvisions)
         /\ pProvisions[visited[i].provision].part = LatestPart(i)
         /\ pProvisions[visited[i].provision].chapter = LatestChapter(i)

\* A section under a part was visited, then a section with no part or chapter
\* ancestor, whose provision carries the heading of that part.
C18_Witness ==
  \E i, j \in 1..Len(visited) :
    /\ i < j
    /\ IsPartHeading(visited[i].ancestor)
    /\ visited[j].ancestor = NoAncestor
    /\ visited[j].provision # 0
    /\ pProvisions[visited[j].provision].part = visited[i].ancestor

\* A part heading was overridden by the part heading of a later section.
C18_WitnessOverride ==
  /\ Len(visited) = 2 /\ Len(pProvisions) = 2
  /\ pProvisions[1].part = <<"PART", "I">>
  /\ pProvisions[2].part = <<"Part", "II">>

\* C19: in the result of parseActContent, for every provision whose title
\* matches the interpretation/definitions heading pattern, each clause
\* '"term" means definition;' of its content has a Definition with that term,
\* that definition and the provision's ref as source_provision, whichever
\* strategy produced the provision.
C19_DefinitionsFromEveryStrategy ==
  ppc = "done" =>
    \A k \in 1..Len(pProvisions) :
      IsDefinitionsTitle(pProvisions[k].title) =>
        \A c \in 1..Len(pProvisions[k].content) :
          pProvisions[k].content[c].kind = "def" =>
            \E d \in 1..Len(pDefinitions) :
              pDefinitions[d] =
                [term |-> pProvisions[k].content[c].term,
                 definition |-> pProvisions[k].content[c].definition,
                 source_provision |-> pProvisions[k].provision_ref]

(***************************************************************************)
(* extractEuReferences (scripts/build-db.ts)                               *)
(*                                                                         *)
(* The text is a sequence of lexemes (strings), consecutive ones separated *)
(* by one space unless a lexeme is itself white space.  Lex says what the  *)
(* regular expressions find at a lexeme: a plain word, an "Article <N>"    *)
(* mention, or an instrument mention, which records for each of the three  *)
(* generic patterns and each of the five named patterns the substring that *)
(* pattern matches there ("" when it does not match).                      *)
(***************************************************************************)
MaxTextLen == 3

\* the context of a match reaches this many lexemes to either side of it
\* (the code takes 120 characters to either side)
ContextWindow == 1

Null == "null"
NoGeneric == <<"", "", "">>
NoNamed == <<"", "", "", "", "">>

Word(w) ==
  [kind |-> "word", word |-> w, article |-> Null, generic |-> NoGeneric,
   type |-> "", rawYear |-> <<>>, rawNumber |-> <<>>, rawCommunity |-> "",
   named |-> NoNamed]

ArticleMention(n) ==
  [kind |-> "article", word |-> "Article", article |-> n, generic |-> NoGeneric,
   type |-> "", rawYear |-> <<>>, rawNumber |-> <<>>, rawCommunity |-> "",
   named |-> NoNamed]

Mention(g, ty, y, n, c, nm) ==
  [kind |-> "mention", word |-> "", article |-> Null, generic |-> g,
   type |-> ty, rawYear |-> y, rawNumber |-> n, rawCommunity |-> c,
   named |-> nm]

\* "Regulation (EU) No 2016/679"
RegulationEuNo ==
  Mention(<<"Regulation (EU) No 2016/679", "", "">>, "Regulation",
          <<"2", "0", "1", "6">>, <<"6", "7", "9">>, "EU", NoNamed)
\* "regulation 16/0679"
RegulationShortYear ==
  Mention(<<"", "", "regulation 16/0679">>, "regulation",
          <<"1", "6">>, <<"0", "6", "7", "9">>, "", NoNamed)
\* "GDPR"
Gdpr ==
  Mention(NoGeneric, "", <<>>, <<>>, "", <<"GDPR", "", "", "", "">>)
\* "Directive 95/46/EC": the second generic pattern matches all of it, the
\* third matches "Directive 95/46"
DirectiveEc ==
  Mention(<<"", "Directive 95/46/EC", "Directive 95/46">>, "Directive",
          <<"9", "5">>, <<"4", "6">>, "EC", NoNamed)
\* "EU Directive 95/46": the third generic pattern matches "Directive 95/46",
\* the second named pattern matches all of it
EuDirective ==
  Mention(<<"", "", "Directive 95/46">>, "Directive",
          <<"9", "5">>, <<"4", "6">>, "", <<"", "EU Directive 95/46", "", "", "">>)
\* "Regulation 000/1": the year is not positive
RegulationYearZero ==
  Mention(<<"", "", "Regulation 000/1">>, "Regulation",
          <<"0", "0", "0">>, <<"1">>, "", NoNamed)
\* "Regulation (EC) No 1234/2007": the number is written before the year
RegulationNumberFirst ==
  Mention(<<"Regulation (EC) No 1234/2007", "", "">>, "Regulation",
          <<"1", "2", "3", "4">>, <<"2", "0", "0", "7">>, "EC", NoNamed)

Lex(lexeme) ==
  CASE lexeme = "Article 5" -> ArticleMention("5")
    [] lexeme = "Regulation (EU) No 2016/679" -> RegulationEuNo
    [] lexeme = "regulation 16/0679" -> RegulationShortYear
    [] lexeme = "GDPR" -> Gdpr
    [] lexeme = "Directive 95/46/EC" -> DirectiveEc
    [] lexeme = "EU Directive 95/46" -> EuDirective
    [] lexeme = "Regulation 000/1" -> RegulationYearZero
    [] lexeme = "Regulation (EC) No 1234/2007" -> RegulationNumberFirst
    [] OTHER -> Word(lexeme)

Lexemes ==
  { "the", "implements", "implementing", "Article 5", "Regulation (EU) No 2016/679",
    "regulation 16/0679", "GDPR", "Directive 95/46/EC", "EU Directive 95/46",
    "Regulation 000/1" }

DigitVal(d) ==
  CASE d = "0" -> 0 [] d = "1" -> 1 [] d = "2" -> 2 [] d = "3" -> 3
    [] d = "4" -> 4 [] d = "5" -> 5 [] d = "6" -> 6 [] d = "7" -> 7
    [] d = "8" -> 8 [] d = "9" -> 9

RECURSIVE ParseInt(_)
ParseInt(digits) ==
  IF Len(digits) = 0 THEN 0
  ELSE 10 * ParseInt(SubSeq(digits, 1, Len(digits) - 1))
       + DigitVal(digits[Len(digits)])

normalizeEuYear(rawYear) ==
  LET parsed == ParseInt(rawYear)
  IN IF Len(rawYear) = 2
       THEN (IF parsed >= 50 THEN 1900 + parsed ELSE 2000 + parsed)
       ELSE parsed

buildEuDocumentId(type, year, number) == <<type, ":", year, "/", number>>

normalizeCommunity(value) ==
  IF value = "" THEN "EU"
  ELSE IF value \in {"EC", "EEC", "AU", "ECOWAS"} THEN value
  ELSE IF value = "EURATOM" THEN "Euratom"
  ELSE "EU"

ImplementWords ==
  {"implement", "implemented", "implements", "transpos", "supplement",
   "complie", "complies"}

\* the slice of the text around the match at lexeme i, white space normalised
ContextOf(txt, i) ==
  normalizeWhitespace(
    SubSeq(txt, Max(1, i - ContextWindow), Min(Len(txt), i + ContextWindow)))

inferReferenceType(context) ==
  IF \/ \E k \in DOMAIN context :
          Lex(context[k]).kind = "word" /\ ToLower(context[k]) \in ImplementWords
     \/ \E k \in 1..(Len(context) - 1) :
          /\ ToLower(context[k]) = "gives"
          /\ ToLower(context[k + 1]) = "effect"
  THEN "implements"
  ELSE "references"

extractArticleReference(context) ==
  LET hits == {k \in DOMAIN context : Lex(context[k]).kind = "article"}
  IN IF hits = {} THEN Null
     ELSE Lex(context[CHOOSE k \in hits : \A h \in hits : k <= h]).article

ArticleOrEmpty(euArticle) == IF euArticle = Null THEN "" ELSE euArticle

DedupeKey(euDocumentId, euArticle) ==
  euDocumentId \o <<":", ArticleOrEmpty(euArticle)>>

SeenHas_Never(seen, key) == FALSE
SeenHas(seen, key) == key \in seen

conventionPatterns ==
  << [id |-> <<"regulation", ":", 2016, "/", 679>>, type |-> "regulation",
      community |-> "EU", year |-> 2016, number |-> 679],
     [id |-> <<"directive", ":", 1995, "/", 46>>, type |-> "directive",
      community |-> "EC", year |-> 1995, number |-> 46],
     [id |-> <<"directive", ":", 2014, "/", 1>>, type |-> "directive",
      community |-> "AU", year |-> 2014, number |-> 1],
     [id |-> <<"directive", ":", 2001, "/", 185>>, type |-> "directive",
      community |-> "EU", year |-> 2001, number |-> 185],
     [id |-> <<"directive", ":", 1981, "/", 108>>, type |-> "directive",
      community |-> "EU", year |-> 1981, number |-> 108] >>

\* One pass of the body of the generic loop: pattern p matched at lexeme i.
GenericMatch(st, txt, p, i) ==
  LET tok == Lex(txt[i])
      type == ToLower(tok.type)
      year == normalizeEuYear(tok.rawYear)
      number == ParseInt(tok.rawNumber)
      community == normalizeCommunity(IF p = 3 THEN "" ELSE tok.rawCommunity)
      referenceContext == ContextOf(txt, i)
      euArticle == extractArticleReference(referenceContext)
      referenceType == inferReferenceType(referenceContext)
      euDocumentId == buildEuDocumentId(type, year, number)
      dedupeKey == DedupeKey(euDocumentId, euArticle)
  IN IF year <= 0 \/ number <= 0 THEN st
     ELSE IF SeenHas(st.seen, dedupeKey) THEN st
     ELSE [seen |-> st.seen \cup {dedupeKey},
           refs |-> Append(st.refs,
                      [type |-> type, community |-> community, year |-> year,
                       number |-> number, euDocumentId |-> euDocumentId,
                       euArticle |-> euArticle, fullCitation |-> tok.generic[p],
                       referenceContext |-> referenceContext,
                       referenceType |-> referenceType])]

ConventionMatch_ExtractsArticle(st, txt, c, i) ==
  LET conv == conventionPatterns[c]
      dedupeKey == conv.id \o <<":", "">>
      referenceContext == ContextOf(txt, i)
  IN IF SeenHas(st.seen, dedupeKey) THEN st
     ELSE [seen |-> st.seen \cup {dedupeKey},
           refs |-> Append(st.refs,
                      [type |-> conv.type, community |-> conv.community,
                       year |-> conv.year, number |-> conv.number,
                       euDocumentId |-> conv.id,
                       euArticle |-> extractArticleReference(referenceContext),
                       fullCitation |-> Lex(txt[i]).named[c],
                       referenceContext |-> referenceContext,
                       referenceType |-> inferReferenceType(referenceContext)])]

\* One pass of the body of the named-instrument loop.
ConventionMatch(st, txt, c, i) ==
  LET conv == conventionPatterns[c]
      dedupeKey == conv.id \o <<":", "">>
      referenceContext == ContextOf(txt, i)
  IN IF SeenHas(st.seen, dedupeKey) THEN st
     ELSE [seen |-> st.seen \cup {dedupeKey},
           refs |-> Append(st.refs,
                      [type |-> conv.type, community |-> conv.community,
                       year |-> conv.year, number |-> conv.number,
                       euDocumentId |-> conv.id, euArticle |-> Null,
                       fullCitation |-> Lex(txt[i]).named[c],
                       referenceContext |-> referenceContext,
                       referenceType |-> inferReferenceType(referenceContext)])]

\* The loops: patterns in array order, the matches of a pattern in text order.
\* Step k visits pattern (k \div Len(txt)) + 1 at lexeme (k % Len(txt)) + 1.
RECURSIVE GenericLoop(_, _, _)
GenericLoop(st, txt, k) ==
  IF k >= 3 * Len(txt) THEN st
  ELSE LET p == (k \div Len(txt)) + 1
           i == (k % Len(txt)) + 1
       IN GenericLoop(IF Lex(txt[i]).generic[p] # "" THEN GenericMatch(st, txt, p, i)
                      ELSE st,
                      txt, k + 1)

RECURSIVE ConventionLoop(_, _, _)
ConventionLoop(st, txt, k) ==
  IF k >= 5 * Len(txt) THEN st
  ELSE LET c == (k \div Len(txt)) + 1
           i == (k % Len(txt)) + 1
       IN ConventionLoop(IF Lex(txt[i]).named[c] # "" THEN ConventionMatch(st, txt, c, i)
                         ELSE st,
                         txt, k + 1)

extractEuReferences(txt) ==
  IF Len(Trim(txt)) = 0 THEN <<>>
  ELSE ConventionLoop(GenericLoop([seen |-> {}, refs |-> <<>>], txt, 0),
                      txt, 0).refs

ExtractInit ==
  /\ euText = <<>>
  /\ euRefs = <<>>
  /\ extractDone = FALSE

\* The caller's text grows by one lexeme.
AppendLexeme(tok) ==
  /\ ~extractDone
  /\ Len(euText) < MaxTextLen
  /\ euText' = Append(euText, tok)
  /\ UNCHANGED <<euRefs, extractDone>>
  /\ UNCHANGED notExtract

CallExtract ==
  /\ ~extractDone
  /\ euRefs' = extractEuReferences(euText)
  /\ extractDone' = TRUE
  /\ UNCHANGED euText
  /\ UNCHANGED notExtract

ExtractNext ==
  \/ \E tok \in Lexemes : AppendLexeme(tok)
  \/ CallExtract

(***************************************************************************)
(* extractEuReferences: claims                                             *)
(***************************************************************************)
\* the (pattern, lexeme) pairs of the generic matches that name an instrument
GenericMatches ==
  {m \in (1..3) \X DOMAIN euText :
     /\ Lex(euText[m[2]]).generic[m[1]] # ""
     /\ normalizeEuYear(Lex(euText[m[2]]).rawYear) > 0
     /\ ParseInt(Lex(euText[m[2]]).rawNumber) > 0}

NamedMatches == {m \in (1..5) \X DOMAIN euText : Lex(euText[m[2]]).named[m[1]] # ""}

GenericId(m) ==
  buildEuDocumentId(ToLower(Lex(euText[m[2]]).type), normalizeEuYear(Lex(euText[m[2]]).rawYear),
                    ParseInt(Lex(euText[m[2]]).rawNumber))

\* C7: in the result of one call no two references have the same instrument
\* id and the same article (none counting as empty); a match is dropped only
\* when its pair is already there, so the pair of every generic match and the
\* instrument of every named match is in the result.
C7_OnePerInstrumentAndArticle ==
  extractDone =>
    /\ \A i, j \in DOMAIN euRefs :
         (/\ euRefs[i].euDocumentId = euRefs[j].euDocumentId
          /\ ArticleOrEmpty(euRefs[i].euArticle) = ArticleOrEmpty(euRefs[j].euArticle))
         => i = j
    /\ \A m \in GenericMatches : \E i \in DOMAIN euRefs :
         /\ euRefs[i].euDocumentId = GenericId(m)
         /\ euRefs[i].euArticle = extractArticleReference(ContextOf(euText, m[2]))
    /\ \A m \in NamedMatches : \E i \in DOMAIN euRefs :
         euRefs[i].euDocumentId = conventionPatterns[m[1]].id

\* "Regulation (EU) No 2016/679" twice, the same (empty) article both times:
\* one reference.
C7_Witness ==
  /\ extractDone
  /\ \E i, j \in DOMAIN euText :
       i < j /\ euText[i] = "Regulation (EU) No 2016/679"
             /\ euText[j] = "Regulation (EU) No 2016/679"
  /\ \A k \in DOMAIN euText : Lex(euText[k]).kind # "article"
  /\ Len(euRefs) = 1

\* A generic match, a match of another generic pattern and a named match of
\* the same instrument: one reference.
C7_WitnessAcrossPatterns ==
  /\ extractDone
  /\ euText = <<"Regulation (EU) No 2016/679", "regulation 16/0679", "GDPR">>
  /\ Len(euRefs) = 1

\* the substrings the named-instrument patterns match in the texts
NamedCitations ==
  { Lex(lexeme).named[c] : lexeme \in Lexemes, c \in 1..5 } \ {""}

\* the reference was pushed by the named-instrument loop
FromNamedPattern(ref) == ref.fullCitation \in NamedCitations

\* C21: for every match, of a generic pattern or of a named-instrument
\* pattern, the article of the reference is the article number the
\* "Article <N>" pattern finds in the context window of the match, or null
\* when the window holds none.
C21_ArticleFromContext ==
  extractDone =>
    \A i \in DOMAIN euRefs :
      euRefs[i].euArticle = extractArticleReference(euRefs[i].referenceContext)

\* C21, as the code has it: the article of a reference of a generic match is
\* the article number the "Article <N>" pattern finds in its context window,
\* or null when the window holds none; the article of a reference of a
\* named-instrument match is null whatever its context window holds.
C21_ArticleFromContextOfGenericMatches ==
  extractDone =>
    \A i \in DOMAIN euRefs :
      IF FromNamedPattern(euRefs[i])
        THEN euRefs[i].euArticle = Null
        ELSE euRefs[i].euArticle = extractArticleReference(euRefs[i].referenceContext)

\* "GDPR" next to "Article 5": the reference has no article
C21_Witness ==
  /\ extractDone
  /\ \E i \in DOMAIN euRefs :
       /\ euRefs[i].fullCitation = "GDPR"
       /\ \E k \in DOMAIN euRefs[i].referenceContext :
            euRefs[i].referenceContext[k] = "Article 5"
       /\ euRefs[i].euArticle = Null

\* a generic match next to "Article 5": the reference has article 5
C21_WitnessGeneric ==
  /\ extractDone
  /\ \E i \in DOMAIN euRefs :
       /\ ~FromNamedPattern(euRefs[i])
       /\ euRefs[i].euArticle = "5"

\* the words of the texts that begin with "implement", "transpos",
\* "supplement" or "compl"
ImplementationWords == {"implement", "implemented", "implements", "implementing"}

\* C22: a reference is classified implements exactly when its context window
\* holds a word beginning with "implement", "transpos", "supplement" or
\* "compl", or the phrase "gives effect", ignoring case; every other
\* reference is classified references.
C22_ImplementsByKeywordPrefix ==
  extractDone =>
    \A i \in DOMAIN euRefs :
      LET context == euRefs[i].referenceContext
          keyword ==
            \/ \E k \in DOMAIN context : ToLower(context[k]) \in ImplementationWords
            \/ \E k \in 1..(Len(context) - 1) :
                 ToLower(context[k]) = "gives" /\ ToLower(context[k + 1]) = "effect"
      IN euRefs[i].referenceType = (IF keyword THEN "implements" ELSE "references")

\* the same for the words the pattern lists in full
C22_ImplementsByListedWord ==
  extractDone =>
    \A i \in DOMAIN euRefs :
      LET context == euRefs[i].referenceContext
      IN euRefs[i].referenceType =
           (IF \E k \in DOMAIN context : ToLower(context[k]) \in ImplementWords
              THEN "implements" ELSE "references")

\* "implementing" stands next to a match
C22_ImplementingInContext ==
  /\ extractDone
  /\ \E i \in DOMAIN euRefs : \E k \in DOMAIN euRefs[i].referenceContext :
       euRefs[i].referenceContext[k] = "implementing"

(***************************************************************************)
(* buildDatabase: the load of the seed files (scripts/build-db.ts)         *)
(*                                                                         *)
(* A table is the sequence of its rows in insertion order; the rowid of a  *)
(* row is its position.  tx is what the statements of the running          *)
(* transaction see, db is what the database file holds.                    *)
(***************************************************************************)
MaxSeeds == 2

EmptyTables ==
  [legal_documents |-> <<>>, legal_provisions |-> <<>>, definitions |-> <<>>,
   eu_documents |-> <<>>, eu_references |-> <<>>]

SeedIds == {"act-1-2000", "act-2-2001"}

Prov(ref, content) == [provision_ref |-> ref, title |-> Undefined, content |-> content]

ImplementsDirective == <<"implements", "Directive 95/46/EC">>
MentionsDirective == <<"Directive 95/46/EC">>
MentionsThenImplements ==
  <<"Article 5", "Directive 95/46/EC", "Directive 95/46/EC", "implements">>
ImplementsNumberFirst == <<"implements", "Regulation (EC) No 1234/2007">>
PlainText == <<"the">>

SeedProvisionLists ==
  { <<>>,
    <<Prov(<<"s", "1">>, PlainText)>>,
    <<Prov(<<"s", "1">>, ImplementsDirective)>>,
    <<Prov(<<"s", "1">>, MentionsDirective), Prov(<<"s", "2">>, ImplementsDirective)>>,
    <<Prov(<<"s", "1">>, ImplementsDirective), Prov(<<"s", "2">>, ImplementsDirective)>>,
    <<Prov(<<"s", "1">>, ImplementsDirective), Prov(<<"s", "2">>, PlainText),
      Prov(<<"s", "3">>, MentionsDirective)>>,
    <<Prov(<<"s", "1">>, MentionsThenImplements)>>,
    <<Prov(<<"s", "1">>, MentionsDirective), Prov(<<" ", "s", "1">>, ImplementsDirective)>>,
    <<Prov(<<"s", "1">>, ImplementsNumberFirst), Prov(<<"s", "2">>, ImplementsDirective)>> }

SeedDefinitionLists ==
  { <<>>,
    <<[term |-> "act", definition |-> "a"]>>,
    <<[term |-> "act", definition |-> "a"], [term |-> "act", definition |-> "b"]>> }

\* a seed file: parses says whether JSON.parse accepts its content
Seeds ==
  [id : SeedIds, provisions : SeedProvisionLists, definitions : SeedDefinitionLists,
   parses : {TRUE}]
  \cup {[id |-> "", provisions |-> <<>>, definitions |-> <<>>, parses |-> FALSE]}

\* INSERT OR IGNORE INTO eu_documents: the row is skipped when its id is
\* there already or a CHECK of the table rejects it
EuDocumentAccepted(ref) ==
  /\ ref.type \in {"directive", "regulation"}
  /\ ref.year >= 1957 /\ ref.year <= 2100
  /\ ref.number > 0
  /\ ref.community \in {"EU", "EC", "EEC", "Euratom", "AU", "ECOWAS"}

insertEuDocument(tables, ref) ==
  IF \/ \E k \in DOMAIN tables.eu_documents :
          tables.eu_documents[k].id = ref.euDocumentId
     \/ ~EuDocumentAccepted(ref)
  THEN tables
  ELSE [tables EXCEPT !.eu_documents =
          Append(@, [id |-> ref.euDocumentId, type |-> ref.type, year |-> ref.year,
                     number |-> ref.number, community |-> ref.community])]

\* INSERT INTO eu_references fails on the foreign key to eu_documents and on
\* UNIQUE(source_id, eu_document_id, eu_article), where NULLs are distinct
EuReferenceFails(tables, row) ==
  \/ ~\E k \in DOMAIN tables.eu_documents :
        tables.eu_documents[k].id = row.eu_document_id
  \/ \E k \in DOMAIN tables.eu_references :
        /\ tables.eu_references[k].source_id = row.source_id
        /\ tables.eu_references[k].eu_document_id = row.eu_document_id
        /\ row.eu_article # Null
        /\ tables.eu_references[k].eu_article = row.eu_article

\* try { insertEuReference.run(...) } catch { }
insertEuReference(tables, row) ==
  IF EuReferenceFails(tables, row) THEN tables
  ELSE [tables EXCEPT !.eu_references = Append(@, row)]

insertDefinition_Replaces(tables, row) ==
  [tables EXCEPT !.definitions =
     IF \E k \in DOMAIN @ : @[k].document_id = row.document_id /\ @[k].term = row.term
       THEN [k \in DOMAIN @ |->
               IF @[k].document_id = row.document_id /\ @[k].term = row.term
                 THEN row ELSE @[k]]
       ELSE Append(@, row)]

\* try { insertDefinition.run(...) } catch { }: UNIQUE(document_id, term)
insertDefinition(tables, row) ==
  IF \E k \in DOMAIN tables.definitions :
       /\ tables.definitions[k].document_id = row.document_id
       /\ tables.definitions[k].term = row.term
  THEN tables
  ELSE [tables EXCEPT !.definitions = Append(@, row)]

PrimaryKey(seedId, euDocumentId) == <<seedId, ":">> \o euDocumentId

IsPrimary_EveryImplements(ref, primary, primaryKey) ==
  ref.referenceType = "implements"
IsPrimary(ref, primary, primaryKey) ==
  ref.referenceType = "implements" /\ primaryKey \notin primary

\* The body of the loop over extractedRefs; st is [tables, primary].
LoadRef(st, seedId, prov, provisionId, ref) ==
  LET sourceId == <<seedId, ":">> \o prov.provision_ref
      withDoc == insertEuDocument(st.tables, ref)
      primaryKey == PrimaryKey(seedId, ref.euDocumentId)
      isPrimary == IF IsPrimary(ref, st.primary, primaryKey) THEN 1 ELSE 0
  IN [tables |-> insertEuReference(withDoc,
                   [source_id |-> sourceId, document_id |-> seedId,
                    provision_id |-> provisionId,
                    eu_document_id |-> ref.euDocumentId, eu_article |-> ref.euArticle,
                    reference_type |-> ref.referenceType,
                    is_primary_implementation |-> isPrimary,
                    implementation_status |->
                      IF isPrimary = 1 THEN "complete" ELSE "unknown"]),
      primary |-> IF isPrimary = 1 THEN st.primary \cup {primaryKey} ELSE st.primary]

RECURSIVE LoadRefs(_, _, _, _, _)
LoadRefs(st, seedId, prov, provisionId, refs) ==
  IF refs = <<>> THEN st
  ELSE LoadRefs(LoadRef(st, seedId, prov, provisionId, Head(refs)),
                seedId, prov, provisionId, Tail(refs))

\* The body of the loop over deduped.
LoadProvision(st, seedId, prov) ==
  LET inserted == [st EXCEPT !.tables.legal_provisions =
                     Append(@, [document_id |-> seedId,
                                provision_ref |-> prov.provision_ref,
                                title |-> prov.title, content |-> prov.content])]
      provisionId == Len(inserted.tables.legal_provisions)
  IN LoadRefs(inserted, seedId, prov, provisionId, extractEuReferences(prov.content))

RECURSIVE LoadProvisions(_, _, _)
LoadProvisions(st, seedId, list) ==
  IF list = <<>> THEN st
  ELSE LoadProvisions(LoadProvision(st, seedId, Head(list)), seedId, Tail(list))

RECURSIVE LoadDefinitions(_, _, _)
LoadDefinitions(tables, seedId, defs) ==
  IF defs = <<>> THEN tables
  ELSE LoadDefinitions(
         insertDefinition(tables, [document_id |-> seedId, term |-> Head(defs).term,
                                   definition |-> Head(defs).definition]),
         seedId, Tail(defs))

\* JSON.parse or insertDoc.run throws: PRIMARY KEY of legal_documents
SeedThrows(tables, seed) ==
  \/ ~seed.parses
  \/ \E k \in DOMAIN tables.legal_documents : tables.legal_documents[k].id = seed.id

\* One pass of the loop over seedFiles that does not throw.
LoadOne(st, seed) ==
  LET withDoc == [st EXCEPT !.tables.legal_documents = Append(@, [id |-> seed.id])]
  IN IF Len(seed.provisions) = 0 THEN withDoc
     ELSE LET loaded == LoadProvisions(withDoc, seed.id,
                                       dedupeProvisions(seed.provisions).deduped)
          IN [loaded EXCEPT !.tables =
                LoadDefinitions(@, seed.id, seed.definitions)]

\* what the database file holds once the transaction has rolled back
AfterRollback_KeepsRows(tables) == tables
AfterRollback(tables) == EmptyTables

LoadInit ==
  /\ lpc = "loading"
  /\ seedFiles = <<>>
  /\ tx = EmptyTables
  /\ db = EmptyTables
  /\ primaryImplementationByDocument = {}

\* The next seed file is read and loaded.
LoadSeed(seed) ==
  /\ lpc = "loading"
  /\ Len(seedFiles) < MaxSeeds
  /\ ~SeedThrows(tx, seed)
  /\ seedFiles' = Append(seedFiles, seed)
  /\ LET st == LoadOne([tables |-> tx, primary |-> primaryImplementationByDocument], seed)
     IN /\ tx' = st.tables
        /\ primaryImplementationByDocument' = st.primary
  /\ UNCHANGED <<lpc, db>>
  /\ UNCHANGED notLoad

\* The next seed file makes JSON.parse or insertDoc throw: the transaction
\* is rolled back and the error leaves buildDatabase.
LoadSeedThrows(seed) ==
  /\ lpc = "loading"
  /\ Len(seedFiles) < MaxSeeds
  /\ SeedThrows(tx, seed)
  /\ seedFiles' = Append(seedFiles, seed)
  /\ lpc' = "aborted"
  /\ db' = AfterRollback(tx)
  /\ UNCHANGED <<tx, primaryImplementationByDocument>>
  /\ UNCHANGED notLoad

\* The loop is over (there was at least one seed file): the transaction commits.
Commit ==
  /\ lpc = "loading"
  /\ Len(seedFiles) >= 1
  /\ lpc' = "committed"
  /\ db' = tx
  /\ UNCHANGED <<seedFiles, tx, primaryImplementationByDocument>>
  /\ UNCHANGED notLoad

LoadNext ==
  \/ \E seed \in Seeds : LoadSeed(seed)
  \/ \E seed \in Seeds : LoadSeedThrows(seed)
  \/ Commit

(***************************************************************************)
(* buildDatabase: claims                                                   *)
(***************************************************************************)
\* the seed files whose pass of the loop ended without an error
LoadedSeeds ==
  IF lpc = "aborted" THEN SubSeq(seedFiles, 1, Len(seedFiles) - 1) ELSE seedFiles

\* the references of one document in the order the load meets them
RECURSIVE ScanProvisions(_)
ScanProvisions(list) ==
  IF list = <<>> THEN <<>>
  ELSE LET refs == extractEuReferences(Head(list).content)
       IN [k \in 1..Len(refs) |->
             [provision_ref |-> Head(list).provision_ref, ref |-> refs[k]]]
          \o ScanProvisions(Tail(list))

ScanOf(seed) ==
  IF Len(seed.provisions) = 0 THEN <<>>
  ELSE ScanProvisions(dedupeProvisions(seed.provisions).deduped)

FirstImplements(scan, k) ==
  /\ scan[k].ref.referenceType = "implements"
  /\ \A j \in 1..(k - 1) :
       ~(/\ scan[j].ref.euDocumentId = scan[k].ref.euDocumentId
         /\ scan[j].ref.referenceType = "implements")

\* the scanned references whose instrument the store accepts, each with the
\* primary flag the scan order gives it
RECURSIVE ExpectedRows(_, _)
ExpectedRows(scan, k) ==
  IF k > Len(scan) THEN <<>>
  ELSE (IF EuDocumentAccepted(scan[k].ref)
          THEN <<[provision_ref |-> scan[k].provision_ref,
                  eu_document_id |-> scan[k].ref.euDocumentId,
                  eu_article |-> scan[k].ref.euArticle,
                  reference_type |-> scan[k].ref.referenceType,
                  is_primary |-> IF FirstImplements(scan, k) THEN 1 ELSE 0]>>
          ELSE <<>>)
       \o ExpectedRows(scan, k + 1)

IsOfDocument(row, id) == row.document_id = id

ReferenceRowsOf(tables, id) ==
  LET Test(row) == IsOfDocument(row, id)
  IN SelectSeq(tables.eu_references, Test)

PrimaryFlags(tables) ==
  [k \in DOMAIN tables.eu_references |->
     tables.eu_references[k].is_primary_implementation]

C8_WitnessLaterImplements ==
  /\ lpc = "committed"
  /\ Len(seedFiles) = 1
  /\ seedFiles[1].provisions =
       <<Prov(<<"s", "1">>, ImplementsDirective), Prov(<<"s", "2">>, ImplementsDirective)>>
  /\ PrimaryFlags(db) = <<1, 0>>
  /\ db.eu_references[2].reference_type = "implements"

DocumentIds(tables) ==
  [k \in DOMAIN tables.legal_documents |-> tables.legal_documents[k].id]

\* C9: nothing is in the database file before the commit; a seed file that
\* makes the load throw (it does not parse, or its document id is already
\* inserted) ends the run with no row committed; otherwise the commit stores
\* the rows of every seed file together: one document row per seed file and
\* one provision row per deduplicated provision.
C9_LoadIsAtomic ==
  /\ lpc = "loading" => db = EmptyTables
  /\ lpc = "aborted" =>
       /\ db = EmptyTables
       /\ SeedThrows(tx, seedFiles[Len(seedFiles)])
  /\ lpc = "committed" =>
       /\ db = tx
       /\ DocumentIds(db) = [k \in DOMAIN seedFiles |-> seedFiles[k].id]
       /\ \A k \in DOMAIN seedFiles :
            /\ seedFiles[k].parses
            /\ \A j \in 1..(k - 1) : seedFiles[j].id # seedFiles[k].id
            /\ LET deduped == IF Len(seedFiles[k].provisions) = 0 THEN <<>>
                              ELSE dedupeProvisions(seedFiles[k].provisions).deduped
               IN \A p \in DOMAIN deduped : \E r \in DOMAIN db.legal_provisions :
                    /\ db.legal_provisions[r].document_id = seedFiles[k].id
                    /\ db.legal_provisions[r].provision_ref = deduped[p].provision_ref
                    /\ db.legal_provisions[r].content = deduped[p].content

\* The second seed file has the document id of the first, whose provisions,
\* definitions and references were inserted: nothing is committed.
C9_Witness ==
  /\ lpc = "aborted"
  /\ Len(seedFiles) = 2
  /\ seedFiles[1].id = seedFiles[2].id
  /\ Len(tx.legal_provisions) > 0
  /\ Len(tx.definitions) > 0
  /\ Len(tx.eu_references) > 0
  /\ db = EmptyTables

\* Two seed files are committed together.
C9_WitnessCommitted ==
  /\ lpc = "committed"
  /\ Len(seedFiles) = 2
  /\ Len(db.legal_documents) = 2
  /\ Len(db.legal_provisions) >= 2
  /\ Len(db.definitions) >= 1

\* the definitions of a seed file without the later ones of a repeated term
RECURSIVE FirstPerTerm(_)
FirstPerTerm(defs) ==
  IF defs = <<>> THEN <<>>
  ELSE LET before == SubSeq(defs, 1, Len(defs) - 1)
           last == defs[Len(defs)]
       IN IF \E k \in DOMAIN before : before[k].term = last.term
            THEN FirstPerTerm(before)
            ELSE Append(FirstPerTerm(before), last)

DefinitionRowsOf(tables, id) ==
  LET Test(row) == IsOfDocument(row, id)
  IN SelectSeq(tables.definitions, Test)

ProvisionRowsOf(tables, id) ==
  LET Test(row) == IsOfDocument(row, id)
  IN SelectSeq(tables.legal_provisions, Test)

\* an insert of the seed file fails: a definition repeats a term, or a
\* reference names an instrument the store does not hold
HasFailingInsert(seed) ==
  /\ Len(seed.provisions) > 0
  /\ \/ Len(FirstPerTerm(seed.definitions)) < Len(seed.definitions)
     \/ Len(ExpectedRows(ScanOf(seed), 1)) < Len(ScanOf(seed))

\* C23: a failing insert of one extracted reference or of one definition is
\* skipped without aborting the load.  The load ends in an error only for a
\* seed file that does not parse or repeats a document id; the commit
\* stores, for every seed file with provisions, all its deduplicated
\* provisions, every reference whose insert did not fail, and one row per
\* defined term, the first one in seed order.
C23_FailingInsertIsSkipped ==
  /\ lpc = "aborted" => SeedThrows(tx, seedFiles[Len(seedFiles)])
  /\ lpc = "committed" =>
       \A k \in DOMAIN seedFiles :
         LET seed == seedFiles[k]
             rows == DefinitionRowsOf(db, seed.id)
             expected == FirstPerTerm(seed.definitions)
         IN Len(seed.provisions) > 0 =>
              /\ Len(rows) = Len(expected)
              /\ \A j \in DOMAIN rows :
                   /\ rows[j].term = expected[j].term
                   /\ rows[j].definition = expected[j].definition
              /\ Len(ReferenceRowsOf(db, seed.id)) = Len(ExpectedRows(ScanOf(seed), 1))
              /\ Len(ProvisionRowsOf(db, seed.id))
                   = Len(dedupeProvisions(seed.provisions).deduped)

\* The first seed file repeats a term and has a reference whose insert
\* fails; its later reference and the rows of the second seed file, which
\* repeats a term too, are committed.
C23_Witness ==
  /\ lpc = "committed"
  /\ Len(seedFiles) = 2
  /\ HasFailingInsert(seedFiles[1])
  /\ seedFiles[1].provisions =
       <<Prov(<<"s", "1">>, ImplementsNumberFirst), Prov(<<"s", "2">>, ImplementsDirective)>>
  /\ Len(seedFiles[1].definitions) = 2
  /\ Len(seedFiles[2].definitions) = 2
  /\ Len(seedFiles[2].provisions) > 0
  /\ Len(ReferenceRowsOf(db, seedFiles[1].id)) = 1
  /\ Len(db.definitions) = 2
  /\ db.definitions[1].definition = "a"
  /\ db.definitions[2].document_id = seedFiles[2].id

(***************************************************************************)
(* parseCitation (src/citation/parser.ts)                                  *)
(*                                                                         *)
(* A citation is a sequence of atoms; an atom is a string (a sequence of   *)
(* one-character strings) that the grammars treat as a unit: one white     *)
(* space character, a comma, a word, a number, a section reference, an     *)
(* "(Act <n>)" group or a document id.  Consecutive atoms are adjacent in  *)
(* the citation, with nothing between them.                                *)
(***************************************************************************)
MaxPieces == 4

UndefinedNumber == -1

Digits == {"0", "1", "2", "3", "4", "5", "6", "7", "8", "9"}
LowerLetters ==
  {"a", "b", "c", "d", "e", "f", "g", "h", "i", "j", "k", "l", "m",
   "n", "o", "p", "q", "r", "s", "t", "u", "v", "w", "x", "y", "z"}

LowerChar(c) ==
  CASE c = "A" -> "a" [] c = "C" -> "c" [] c = "D" -> "d" [] c = "E" -> "e"
    [] c = "I" -> "i" [] c = "N" -> "n" [] c = "O" -> "o" [] c = "P" -> "p"
    [] c = "S" -> "s" [] c = "T" -> "t"
    [] OTHER -> c

LowerAtom(a) == [k \in DOMAIN a |-> LowerChar(a[k])]

AllDigits(a) == Len(a) >= 1 /\ \A k \in DOMAIN a : a[k] \in Digits

\* the atoms of the input
Sp == <<" ">>
Comma == <<",">>
WordSection == <<"S", "e", "c", "t", "i", "o", "n">>
WordSDot == <<"s", ".">>
WordS == <<"s">>
Ref1 == <<"1">>
Ref12a == <<"1", "(", "2", ")", "(", "a", ")">>
Year2012 == <<"2", "0", "1", "2">>
TitleDpa == <<"D", "P", "A">>
ActParen843 == <<"(", "A", "c", "t", " ", "8", "4", "3", ")">>
Id843 == <<"a", "c", "t", "-", "8", "4", "3", "-", "2", "0", "1", "2">>
Id07 == <<"A", "c", "t", "-", "0", "7", "-", "1", "9", "9", "9">>

\* what the caller's string is put together from
Pieces ==
  { <<Id843>>, <<Id07>>, <<Comma, Sp>>, <<Sp>>, <<WordSDot, Sp, Ref1>>,
    <<WordSection, Sp, Ref12a>>, <<TitleDpa, Sp, Year2012>>, <<Sp, ActParen843>>,
    <<WordS, Ref1>> }

\* \s
IsWsAtom(a) == Len(a) = 1 /\ IsSpace(a[1])
IsCommaAtom(a) == a = Comma

\* (?:Section|s\.?) under the flag i
IsSectionWord(a) == LowerAtom(a) \in {LowerAtom(WordSection), WordSDot, WordS}
\* s\.? under the flag i
IsShortWord(a) == LowerAtom(a) \in {WordSDot, WordS}
\* \d{4}
IsYearAtom(a) == Len(a) = 4 /\ AllDigits(a)

\* the first position from i on that holds no digit
RECURSIVE DigitsEnd(_, _)
DigitsEnd(a, i) ==
  IF i <= Len(a) /\ a[i] \in Digits THEN DigitsEnd(a, i + 1) ELSE i

\* (?:\(\d+\))*(?:\([a-z]\))* from position i to the end, under the flag i;
\* letters says that a letter group has been passed
RECURSIVE RefGroups(_, _, _)
RefGroups(a, i, letters) ==
  IF i = Len(a) + 1 THEN TRUE
  ELSE IF a[i] # "(" THEN FALSE
  ELSE LET e == DigitsEnd(a, i + 1)
       IN IF ~letters /\ e > i + 1 /\ e <= Len(a) /\ a[e] = ")"
            THEN RefGroups(a, e + 1, FALSE)
          ELSE IF i + 2 <= Len(a) /\ LowerChar(a[i + 1]) \in LowerLetters /\ a[i + 2] = ")"
            THEN RefGroups(a, i + 3, TRUE)
          ELSE FALSE

\* \d+(?:\(\d+\))*(?:\([a-z]\))* under the flag i
IsSectionRef(a) == DigitsEnd(a, 1) > 1 /\ RefGroups(a, DigitsEnd(a, 1), FALSE)

\* \(Act\s+(\d+)\) under the flag i (with one white space character)
IsActParen(a) ==
  /\ Len(a) >= 7
  /\ LowerAtom(SubSeq(a, 1, 4)) = <<"(", "a", "c", "t">>
  /\ IsSpace(a[5])
  /\ AllDigits(SubSeq(a, 6, Len(a) - 1))
  /\ a[Len(a)] = ")"

ActParenNumber(a) == SubSeq(a, 6, Len(a) - 1)

\* act-\d+-\d{4} under the flag i
IsIdAtom(a) ==
  /\ Len(a) >= 10
  /\ LowerAtom(SubSeq(a, 1, 4)) = <<"a", "c", "t", "-">>
  /\ AllDigits(SubSeq(a, 5, Len(a) - 5))
  /\ a[Len(a) - 4] = "-"
  /\ AllDigits(SubSeq(a, Len(a) - 3, Len(a)))

\* idParts[2] and idParts[1]
IdYear(a) == SubSeq(a, Len(a) - 3, Len(a))
IdNumber_IsYear(a) == IdYear(a)
IdNumber(a) == SubSeq(a, 5, Len(a) - 5)

RECURSIVE Flatten(_)
Flatten(atoms) ==
  IF atoms = <<>> THEN <<>> ELSE Head(atoms) \o Flatten(Tail(atoms))

\* citation.trim()
RECURSIVE TrimAtomsStart(_)
TrimAtomsStart(s) ==
  IF s # <<>> /\ IsWsAtom(Head(s)) THEN TrimAtomsStart(Tail(s)) ELSE s

RECURSIVE TrimAtomsEnd(_)
TrimAtomsEnd(s) ==
  IF s # <<>> /\ IsWsAtom(s[Len(s)]) THEN TrimAtomsEnd(SubSeq(s, 1, Len(s) - 1)) ELSE s

TrimAtoms(s) == TrimAtomsEnd(TrimAtomsStart(s))

\* \s* read forwards from i: the first position that holds no white space
RECURSIVE SkipWs(_, _)
SkipWs(s, i) ==
  IF i >= 1 /\ i <= Len(s) /\ IsWsAtom(s[i]) THEN SkipWs(s, i + 1) ELSE i

\* \s* read backwards from i: the last position up to i that holds no white space
RECURSIVE SkipWsBack(_, _)
SkipWsBack(s, i) ==
  IF i >= 1 /\ i <= Len(s) /\ IsWsAtom(s[i]) THEN SkipWsBack(s, i - 1) ELSE i

Has(s, i) == i >= 1 /\ i <= Len(s)

NoCapture ==
  [matched |-> FALSE, section |-> <<>>, title |-> Undefined,
   year |-> <<>>, number |-> <<>>]

Capture(section, title, year, number) ==
  [matched |-> TRUE, section |-> section, title |-> title,
   year |-> year, number |-> number]

\* ID_BASED: id, \s*,?\s*, section word, \s*, reference, \s*, end
ID_BASED(s) ==
  LET a == SkipWs(s, 2)
      b == IF Has(s, a) /\ IsCommaAtom(s[a]) THEN a + 1 ELSE a
      c == SkipWs(s, b)
      e == SkipWs(s, c + 1)
  IN IF /\ Has(s, 1) /\ IsIdAtom(s[1])
        /\ Has(s, c) /\ IsSectionWord(s[c])
        /\ Has(s, e) /\ IsSectionRef(s[e])
        /\ SkipWs(s, e + 1) = Len(s) + 1
       THEN Capture(s[e], Undefined, IdYear(s[1]), IdNumber(s[1]))
       ELSE NoCapture

\* The ways \s*,?\s+ can be read from position r on: <<a, k, t>> says that
\* \s* ends before a, that ,? takes k commas and that \s+ ends before t.
SeparatorReadings(s, r) ==
  {x \in (r..SkipWs(s, r)) \X {0, 1} \X (r..(Len(s) + 1)) :
     /\ x[2] = 1 => (Has(s, x[1]) /\ IsCommaAtom(s[x[1]]))
     /\ x[3] > x[1] + x[2]
     /\ x[3] <= SkipWs(s, x[1] + x[2])}

\* \s+ read from position r on
GapReadings(s, r) ==
  {x \in {r} \X {0} \X (r..(Len(s) + 1)) : x[3] > r /\ x[3] <= SkipWs(s, r)}

\* the order in which the regular expression tries the readings: greedy
Preferred(x, y) ==
  \/ x[1] > y[1]
  \/ x[1] = y[1] /\ x[2] > y[2]
  \/ x[1] = y[1] /\ x[2] = y[2] /\ x[3] >= y[3]

\* A citation with the section in front.  shortOnly: the section word is
\* s\.?; comma: the separator is \s*,?\s+, else \s+; withNumber: "(Act n)"
\* follows the year.  The title (.+?) starts where the separator ends and is
\* the shortest text followed by \s+, the year and the end.
LeadingSection(s, shortOnly, comma, withNumber) ==
  LET n == Len(s)
      a == SkipWs(s, 2)
      r == a + 1
      y == IF withNumber THEN SkipWsBack(s, n - 1) ELSE n
      readings == {x \in (IF comma THEN SeparatorReadings(s, r) ELSE GapReadings(s, r)) :
                     x[3] <= y - 2}
      best == CHOOSE x \in readings : \A z \in readings : Preferred(x, z)
      titleEnd == Max(best[3], SkipWsBack(s, y - 1))
  IN IF /\ Has(s, 1)
        /\ IF shortOnly THEN IsShortWord(s[1]) ELSE IsSectionWord(s[1])
        /\ a > 2
        /\ Has(s, a) /\ IsSectionRef(s[a])
        /\ withNumber => IsActParen(s[n])
        /\ Has(s, y) /\ IsYearAtom(s[y])
        /\ Has(s, y - 1) /\ IsWsAtom(s[y - 1])
        /\ readings # {}
       THEN Capture(s[a], Flatten(SubSeq(s, best[3], titleEnd)), s[y],
                    IF withNumber THEN ActParenNumber(s[n]) ELSE <<>>)
       ELSE NoCapture

FULL_WITH_ACT_NUMBER(s) == LeadingSection(s, FALSE, TRUE, TRUE)
FULL_CITATION(s) == LeadingSection(s, FALSE, TRUE, FALSE)
SHORT_CITATION(s) == LeadingSection(s, TRUE, FALSE, FALSE)

\* A citation with the section at the end, read from the end: reference,
\* \s*, section word, \s*,?\s*, ["(Act n)", \s*,] year, \s+, title.
TrailingSection(s, withNumber) ==
  LET n == Len(s)
      w == SkipWsBack(s, n - 1)
      c == SkipWsBack(s, w - 1)
      d == IF Has(s, c) /\ IsCommaAtom(s[c]) THEN c - 1 ELSE c
      p == SkipWsBack(s, d)
      y == IF withNumber THEN SkipWsBack(s, p - 1) ELSE p
      titleEnd == SkipWsBack(s, y - 1)
  IN IF /\ Has(s, n) /\ IsSectionRef(s[n])
        /\ Has(s, w) /\ IsSectionWord(s[w])
        /\ withNumber => (Has(s, p) /\ IsActParen(s[p]))
        /\ Has(s, y) /\ IsYearAtom(s[y])
        /\ Has(s, y - 1) /\ IsWsAtom(s[y - 1])
        /\ titleEnd >= 1
       THEN Capture(s[n], Flatten(SubSeq(s, 1, titleEnd)), s[y],
                    IF withNumber THEN ActParenNumber(s[p]) ELSE <<>>)
       ELSE NoCapture

TRAILING_WITH_ACT_NUMBER(s) == TrailingSection(s, TRUE)
TRAILING_SECTION(s) == TrailingSection(s, FALSE)

\* SECTION_REF (no flag i): (\d+)(?:\((\d+)\))?(?:\(([a-z])\))?
SECTION_REF(a) ==
  LET p1 == DigitsEnd(a, 1)
      e2 == DigitsEnd(a, p1 + 1)
      hasSub == /\ p1 <= Len(a) /\ a[p1] = "(" /\ e2 > p1 + 1
                /\ e2 <= Len(a) /\ a[e2] = ")"
      p2 == IF hasSub THEN e2 + 1 ELSE p1
      hasPar == /\ p2 + 2 <= Len(a) /\ a[p2] = "(" /\ a[p2 + 1] \in LowerLetters
                /\ a[p2 + 2] = ")"
      p3 == IF hasPar THEN p2 + 3 ELSE p2
  IN [matched |-> p1 > 1 /\ p3 = Len(a) + 1,
      section |-> SubSeq(a, 1, p1 - 1),
      subsection |-> IF hasSub THEN SubSeq(a, p1 + 1, e2 - 1) ELSE Undefined,
      paragraph |-> IF hasPar THEN <<a[p2 + 1]>> ELSE Undefined]

TrimTitle(title) == IF title = Undefined THEN Undefined ELSE Trim(title)

parseSection(sectionStr, title, year, actNumber, type) ==
  LET sectionMatch == SECTION_REF(sectionStr)
  IN IF ~sectionMatch.matched
       THEN [valid |-> TRUE, type |-> type, title |-> TrimTitle(title), year |-> year,
             act_number |-> actNumber, section |-> sectionStr,
             subsection |-> Undefined, paragraph |-> Undefined]
       ELSE [valid |-> TRUE, type |-> type, title |-> TrimTitle(title), year |-> year,
             act_number |-> actNumber, section |-> sectionMatch.section,
             subsection |-> sectionMatch.subsection,
             paragraph |-> sectionMatch.paragraph]

\* what parseCitation returns when no grammar matches
UnknownCitation ==
  [valid |-> FALSE, type |-> "unknown", title |-> Undefined, year |-> UndefinedNumber,
   act_number |-> UndefinedNumber, section |-> Undefined,
   subsection |-> Undefined, paragraph |-> Undefined]

NotParsed == [UnknownCitation EXCEPT !.type = "not parsed"]

\* the result built from a match
FromMatch(m) ==
  parseSection(m.section, m.title, ParseInt(m.year),
               IF m.number = <<>> THEN UndefinedNumber ELSE ParseInt(m.number), "act")

Grammars == <<"id", "full_number", "full", "short", "trailing_number", "trailing">>

CiteInit ==
  /\ cpc = "input"
  /\ citation = <<>>
  /\ nPieces = 0
  /\ tried = <<>>
  /\ grammar = "none"
  /\ parsedCitation = NotParsed

\* The caller's string grows by one piece.
AppendPiece(piece) ==
  /\ cpc = "input"
  /\ nPieces < MaxPieces
  /\ citation' = citation \o piece
  /\ nPieces' = nPieces + 1
  /\ UNCHANGED <<cpc, tried, grammar, parsedCitation>>
  /\ UNCHANGED notCite

\* const trimmed = citation.trim()
CallParseCitation ==
  /\ cpc = "input"
  /\ citation' = TrimAtoms(citation)
  /\ cpc' = "id"
  /\ UNCHANGED <<nPieces, tried, grammar, parsedCitation>>
  /\ UNCHANGED notCite

\* One grammar is tried: the result is built from its match, or the next
\* grammar (the unknown result after the last one) is next.
TryGrammar(at, m, next) ==
  /\ cpc = at
  /\ tried' = Append(tried, at)
  /\ IF m.matched
       THEN /\ parsedCitation' = FromMatch(m)
            /\ grammar' = at
            /\ cpc' = "done"
       ELSE /\ parsedCitation' = IF next = "done" THEN UnknownCitation ELSE parsedCitation
            /\ grammar' = grammar
            /\ cpc' = next
  /\ UNCHANGED <<citation, nPieces>>
  /\ UNCHANGED notCite

TryIdBased == TryGrammar("id", ID_BASED(citation), "full_number")
TryFullWithActNumber ==
  TryGrammar("full_number", FULL_WITH_ACT_NUMBER(citation), "full")
TryFullCitation == TryGrammar("full", FULL_CITATION(citation), "short")
TryShortCitation == TryGrammar("short", SHORT_CITATION(citation), "trailing_number")
TryTrailingWithActNumber ==
  TryGrammar("trailing_number", TRAILING_WITH_ACT_NUMBER(citation), "trailing")
TryTrailingSection == TryGrammar("trailing", TRAILING_SECTION(citation), "done")

CiteNext ==
  \/ \E piece \in Pieces : AppendPiece(piece)
  \/ CallParseCitation
  \/ TryIdBased
  \/ TryFullWithActNumber
  \/ TryFullCitation
  \/ TryShortCitation
  \/ TryTrailingWithActNumber
  \/ TryTrailingSection

(***************************************************************************)
(* parseCitation: claims                                                   *)
(***************************************************************************)
MatchOf(g, s) ==
  CASE g = "id" -> ID_BASED(s)
    [] g = "full_number" -> FULL_WITH_ACT_NUMBER(s)
    [] g = "full" -> FULL_CITATION(s)
    [] g = "short" -> SHORT_CITATION(s)
    [] g = "trailing_number" -> TRAILING_WITH_ACT_NUMBER(s)
    [] g = "trailing" -> TRAILING_SECTION(s)

\* the string is "act-<n>-<yyyy>, s. <ref>"; j is where the second dash is
IsIdCitation(s, j) ==
  /\ Len(s) = 6
  /\ SubSeq(s, 2, 5) = <<Comma, Sp, WordSDot, Sp>>
  /\ IsSectionRef(s[6])
  /\ j \in 6..Len(s[1])
  /\ SubSeq(s[1], 1, 4) = <<"a", "c", "t", "-">>
  /\ AllDigits(SubSeq(s[1], 5, j - 1))
  /\ s[1][j] = "-"
  /\ Len(s[1]) = j + 4
  /\ AllDigits(SubSeq(s[1], j + 1, j + 4))

\* C10: the grammars are tried in the order ID-based, full with number, full,
\* short, trailing with number, trailing; the result is built from the first
\* one that matches, and is the unknown result only when none matches; a
\* string "act-<n>-<yyyy>, s. <ref>" is parsedCitation by the ID-based grammar, with
\* act_number n, year yyyy and no title, before any other grammar is tried.
C10_FirstGrammarWins ==
  /\ IsPrefix(tried, Grammars)
  /\ cpc = "done" =>
       /\ parsedCitation.valid =>
            /\ grammar = tried[Len(tried)]
            /\ MatchOf(grammar, citation).matched
            /\ parsedCitation = FromMatch(MatchOf(grammar, citation))
            /\ \A k \in 1..(Len(tried) - 1) : ~MatchOf(Grammars[k], citation).matched
       /\ ~parsedCitation.valid =>
            /\ tried = Grammars
            /\ parsedCitation = UnknownCitation
            /\ \A k \in DOMAIN Grammars : ~MatchOf(Grammars[k], citation).matched
       /\ \A j \in 1..20 :
            IsIdCitation(citation, j) =>
              /\ parsedCitation.valid
              /\ grammar = "id"
              /\ tried = <<"id">>
              /\ parsedCitation.act_number = ParseInt(SubSeq(citation[1], 5, j - 1))
              /\ parsedCitation.year = ParseInt(SubSeq(citation[1], j + 1, j + 4))
              /\ parsedCitation.title = Undefined

\* "act-843-2012, s. 1" is parsedCitation by the ID-based grammar.
C10_Witness ==
  /\ cpc = "done"
  /\ citation = <<Id843, Comma, Sp, WordSDot, Sp, Ref1>>
  /\ grammar = "id"
  /\ parsedCitation.valid
  /\ parsedCitation.act_number = 843
  /\ parsedCitation.year = 2012
  /\ parsedCitation.title = Undefined
  /\ parsedCitation.section = <<"1">>

\* "DPA 2012 (Act 843), s. 1" is parsedCitation by the fifth grammar after the first
\* four did not match.
C10_WitnessTrailing ==
  /\ cpc = "done"
  /\ citation = <<TitleDpa, Sp, Year2012, Sp, ActParen843, Comma, Sp, WordSDot, Sp, Ref1>>
  /\ grammar = "trailing_number"
  /\ Len(tried) = 5
  /\ parsedCitation.title = TitleDpa
  /\ parsedCitation.act_number = 843

\* "s. 1 DPA 2012" matches the full and the short grammar: the full one wins.
C10_WitnessTwoMatch ==
  /\ cpc = "done"
  /\ citation = <<WordSDot, Sp, Ref1, Sp, TitleDpa, Sp, Year2012>>
  /\ grammar = "full"
  /\ SHORT_CITATION(citation).matched

(***************************************************************************)
(* fetchAndParseActs (scripts/ingest.ts): one record per act in SEED_DIR   *)
(***************************************************************************)
\* Bound of the ingestion model: the number of runs of the pipeline
MaxRuns == 3

\* Entries of the act index (discoverActs keeps one entry per year and number)
Act843 == [title |-> "Data Protection Act", year |-> 2012, actNumber |-> 843,
           url |-> "/akn/gh/act/2012/843"]
Act1038 == [title |-> "Cybersecurity Act", year |-> 2020, actNumber |-> 1038,
            url |-> "/akn/gh/act/2020/1038"]
Acts == {Act843, Act1038}
ActIndexes == { <<Act843>>, <<Act843, Act1038>>, <<Act1038, Act843>> }

\* --limit N (0: not given)
Limits == {0, 1}

\* result.status of fetchActContent
ContentStatuses == {200, 404, 301, 302, 503}

\* path.join(SEED_DIR, `${act.year}_${act.actNumber}.json`)
SeedFile(act) == <<act.year, "_", act.actNumber>>
SeedFileNames == { SeedFile(act) : act \in Acts }

NoFile == [kind |-> "absent"]

\* const minimalSeed: ParsedAct = { ... }
MinimalSeed(act) ==
  [kind |-> "seed",
   id |-> <<"act-", act.actNumber, "-", act.year>>,
   type |-> "act",
   title |-> act.title,
   short_name |-> "",
   act_number |-> act.actNumber,
   year |-> act.year,
   status |-> "in_force",
   issued_date |-> <<act.year, "-01-01">>,
   url |-> act.url,
   provisions |-> <<>>,
   definitions |-> <<>>]

\* What parseActContent can make of a page: the provisions and definitions it
\* finds (by their refs and terms) and the short name it derives.
PageContents ==
  { [provisions |-> <<>>, definitions |-> <<>>, short_name |-> "DPA"],
    [provisions |-> <<"s1">>, definitions |-> <<>>, short_name |-> "DPA"],
    [provisions |-> <<"s1", "s2">>, definitions |-> <<"act">>, short_name |-> "" ] }

\* parseActContent(result.body, act.year, act.actNumber, act.title): the record
\* returned for a page with these contents
ParsedAct(html, act) ==
  [kind |-> "seed",
   id |-> <<"act-", act.actNumber, "-", act.year>>,
   type |-> "act",
   title |-> act.title,
   short_name |-> html.short_name,
   act_number |-> act.actNumber,
   year |-> act.year,
   status |-> "in_force",
   issued_date |-> <<act.year, "-01-01">>,
   url |-> <<"https://ghalii.org/akn/gh/act/", act.year, "/", act.actNumber>>,
   provisions |-> html.provisions,
   definitions |-> html.definitions]

SeedExists_OnlyWithProvisions(dir, act) ==
  dir[SeedFile(act)] # NoFile /\ dir[SeedFile(act)].provisions # <<>>

\* fs.existsSync(seedFile)
SeedExists(dir, act) == dir[SeedFile(act)] # NoFile

\* result.status === 404 || result.status === 301 || result.status === 302
IsGone(status) == status \in {404, 301, 302}

\* limit ? acts.slice(0, limit) : acts
Slice(acts, limit) ==
  IF limit # 0 /\ limit < Len(acts) THEN SubSeq(acts, 1, limit) ELSE acts

NoCounters == [processed |-> 0, skipped |-> 0, failed |-> 0, totalProvisions |-> 0]

IngestInit ==
  /\ ipc = "idle"
  /\ runs = 0
  /\ toProcess = <<>>
  /\ ipos = 0
  /\ seedDir = [f \in SeedFileNames |-> NoFile]
  /\ counters = NoCounters
  /\ iterations = <<>>

\* main() has its act index and calls fetchAndParseActs(acts, limit).
BeginRun(acts, limit) ==
  /\ ipc = "idle"
  /\ runs < MaxRuns
  /\ runs' = runs + 1
  /\ ipc' = "loop"
  /\ toProcess' = Slice(acts, limit)
  /\ ipos' = 1
  /\ counters' = NoCounters
  /\ UNCHANGED <<seedDir, iterations>>
  /\ UNCHANGED notIngest

\* An iteration of the loop for an act whose seed file exists.
SkipAct ==
  /\ ipc = "loop"
  /\ ipos <= Len(toProcess)
  /\ SeedExists(seedDir, toProcess[ipos])
  /\ counters' = [counters EXCEPT !.skipped = @ + 1, !.processed = @ + 1]
  /\ iterations' = Append(iterations,
       [run |-> runs, file |-> SeedFile(toProcess[ipos]), did |-> "skipped",
        status |-> 0, written |-> NoFile])
  /\ ipos' = ipos + 1
  /\ UNCHANGED <<ipc, runs, toProcess, seedDir>>
  /\ UNCHANGED notIngest

\* An iteration of the loop for an act with no seed file: fetchActContent
\* answers with a status and, for 200, a page.
FetchAct(status, html) ==
  /\ ipc = "loop"
  /\ ipos <= Len(toProcess)
  /\ ~SeedExists(seedDir, toProcess[ipos])
  /\ LET act == toProcess[ipos]
         record == IF status = 200 THEN ParsedAct(html, act)
                   ELSE IF IsGone(status) THEN MinimalSeed(act)
                   ELSE NoFile
     IN /\ seedDir' = IF record = NoFile THEN seedDir
                      ELSE [seedDir EXCEPT ![SeedFile(act)] = record]
        /\ counters' =
             [counters EXCEPT
                !.processed = @ + 1,
                !.failed = IF status # 200 THEN @ + 1 ELSE @,
                !.totalProvisions = IF status = 200 THEN @ + Len(html.provisions)
                                    ELSE @]
        /\ iterations' = Append(iterations,
             [run |-> runs, file |-> SeedFile(act), did |-> "fetched",
              status |-> status, written |-> record])
  /\ ipos' = ipos + 1
  /\ UNCHANGED <<ipc, runs, toProcess>>
  /\ UNCHANGED notIngest

\* An iteration of the loop for an act with no seed file: fetchActContent
\* throws and the catch counts the act as failed.
FetchActThrows ==
  /\ ipc = "loop"
  /\ ipos <= Len(toProcess)
  /\ ~SeedExists(seedDir, toProcess[ipos])
  /\ counters' = [counters EXCEPT !.processed = @ + 1, !.failed = @ + 1]
  /\ iterations' = Append(iterations,
       [run |-> runs, file |-> SeedFile(toProcess[ipos]), did |-> "threw",
        status |-> 0, written |-> NoFile])
  /\ ipos' = ipos + 1
  /\ UNCHANGED <<ipc, runs, toProcess, seedDir>>
  /\ UNCHANGED notIngest

\* The loop is over and the run ends.
EndRun ==
  /\ ipc = "loop"
  /\ ipos > Len(toProcess)
  /\ ipc' = "idle"
  /\ UNCHANGED <<runs, toProcess, ipos, seedDir, counters, iterations>>
  /\ UNCHANGED notIngest

IngestNext ==
  \/ \E acts \in ActIndexes, limit \in Limits : BeginRun(acts, limit)
  \/ SkipAct
  \/ \E status \in ContentStatuses, html \in PageContents : FetchAct(status, html)
  \/ FetchActThrows
  \/ EndRun

(***************************************************************************)
(* Claims about the ingestion                                              *)
(***************************************************************************)
\* The iteration wrote a record.
Wrote(i) == iterations[i].written # NoFile

\* C15: an act whose content fetch returns 404, 301 or 302 gets a record with
\* zero provisions and zero definitions; once an act has a record (stub or
\* parsed), every later iteration for it, in the same or a later run, skips it
\* with no fetch; and the record in the seed directory stays the one first
\* written.
C15_ResumableWithoutRefetch ==
  \A i \in 1..Len(iterations) :
    /\ (iterations[i].did = "fetched" /\ IsGone(iterations[i].status)) =>
         /\ Wrote(i)
         /\ iterations[i].written.provisions = <<>>
         /\ iterations[i].written.definitions = <<>>
    /\ (iterations[i].did = "fetched" /\ iterations[i].status = 200) => Wrote(i)
    /\ Wrote(i) =>
         /\ seedDir[iterations[i].file] = iterations[i].written
         /\ \A j \in (i + 1)..Len(iterations) :
              iterations[j].file = iterations[i].file =>
                iterations[j].did = "skipped"
    /\ iterations[i].did = "skipped" =>
         \E h \in 1..(i - 1) :
           Wrote(h) /\ iterations[h].file = iterations[i].file

\* An act got a stub for a 302 in one run and was skipped in the next two runs,
\* the stub still in the seed directory.
C15_Witness ==
  \E i, j, k \in 1..Len(iterations) :
    /\ iterations[i].did = "fetched" /\ iterations[i].status = 302
    /\ iterations[j].file = iterations[i].file /\ iterations[j].did = "skipped"
    /\ iterations[k].file = iterations[i].file /\ iterations[k].did = "skipped"
    /\ iterations[i].run < iterations[j].run
    /\ iterations[j].run < iterations[k].run
    /\ seedDir[iterations[i].file] = iterations[i].written
    /\ seedDir[iterations[i].file].provisions = <<>>

(***************************************************************************)
(* formatCitation (src/citation/formatter.ts)                              *)
(* The formatter works on strings (sequences of characters); what it       *)
(* returns is read back by parseCitation through the atoms of the string.  *)
(***************************************************************************)
CitationFormats == {"full", "short", "pinpoint"}

DigitChar(d) ==
  CASE d = 0 -> "0" [] d = 1 -> "1" [] d = 2 -> "2" [] d = 3 -> "3"
    [] d = 4 -> "4" [] d = 5 -> "5" [] d = 6 -> "6" [] d = 7 -> "7"
    [] d = 8 -> "8" [] d = 9 -> "9"

\* `${n}` of a number that is no negative
RECURSIVE NumberToString(_)
NumberToString(n) ==
  IF n < 10 THEN <<DigitChar(n)>>
  ELSE NumberToString(n \div 10) \o <<DigitChar(n % 10)>>

\* a value that is undefined or the empty string
IsEmptyString(str) == str = Undefined \/ str = <<>>

\* a ?? ''
OrEmpty(str) == IF str = Undefined THEN <<>> ELSE str

buildPinpoint(parsed) ==
  OrEmpty(parsed.section)
    \o (IF ~IsEmptyString(parsed.subsection)
          THEN <<"(">> \o parsed.subsection \o <<")">> ELSE <<>>)
    \o (IF ~IsEmptyString(parsed.paragraph)
          THEN <<"(">> \o parsed.paragraph \o <<")">> ELSE <<>>)

\* parsed.act_number ? ` (Act ${parsed.act_number})` : ''
ActSuffix(parsed) ==
  IF parsed.act_number # UndefinedNumber /\ parsed.act_number # 0
    THEN <<" ", "(", "A", "c", "t", " ">> \o NumberToString(parsed.act_number)
           \o <<")">>
    ELSE <<>>

\* `${parsed.title ?? ''} ${parsed.year ?? ''}`
TitleAndYear(parsed) ==
  OrEmpty(parsed.title) \o <<" ">>
    \o (IF parsed.year = UndefinedNumber THEN <<>> ELSE NumberToString(parsed.year))

formatCitation(parsed, format) ==
  IF ~parsed.valid \/ IsEmptyString(parsed.section) THEN <<>>
  ELSE LET pinpoint == buildPinpoint(parsed)
       IN CASE format = "short" ->
                 Trim(<<"s", ".", " ">> \o pinpoint \o <<",", " ">> \o TitleAndYear(parsed))
            [] format = "pinpoint" -> <<"s", ".", " ">> \o pinpoint
            [] OTHER ->
                 Trim(WordSection \o <<" ">> \o pinpoint \o <<",", " ">>
                        \o TitleAndYear(parsed) \o ActSuffix(parsed))

\* The atoms of a string.  At position i: a white space character and a comma
\* are atoms; "(Act", one white space character, digits and ")" are one atom;
\* any other atom runs up to the next white space character or comma.
ActParenEnd(str, i) ==
  LET e == DigitsEnd(str, i + 5)
  IN IF /\ i + 6 <= Len(str)
        /\ LowerAtom(SubSeq(str, i, i + 3)) = <<"(", "a", "c", "t">>
        /\ IsSpace(str[i + 4])
        /\ e > i + 5 /\ e <= Len(str) /\ str[e] = ")"
       THEN e ELSE 0

RECURSIVE RunEnd(_, _)
RunEnd(str, i) ==
  IF i < Len(str) /\ ~IsSpace(str[i + 1]) /\ str[i + 1] # "," THEN RunEnd(str, i + 1)
  ELSE i

RECURSIVE AtomsFrom(_, _)
AtomsFrom(str, i) ==
  IF i > Len(str) THEN <<>>
  ELSE LET e == IF IsSpace(str[i]) \/ str[i] = "," THEN i
                ELSE IF ActParenEnd(str, i) # 0 THEN ActParenEnd(str, i)
                ELSE RunEnd(str, i)
       IN <<SubSeq(str, i, e)>> \o AtomsFrom(str, e + 1)

Atoms(str) == AtomsFrom(str, 1)

\* parseCitation as a function of its argument: the result is built from the
\* first grammar, in the order of the code, that matches the trimmed string.
parseCitation(s) ==
  LET trimmed == TrimAtoms(s)
  IN IF ID_BASED(trimmed).matched THEN FromMatch(ID_BASED(trimmed))
     ELSE IF FULL_WITH_ACT_NUMBER(trimmed).matched
       THEN FromMatch(FULL_WITH_ACT_NUMBER(trimmed))
     ELSE IF FULL_CITATION(trimmed).matched THEN FromMatch(FULL_CITATION(trimmed))
     ELSE IF SHORT_CITATION(trimmed).matched THEN FromMatch(SHORT_CITATION(trimmed))
     ELSE IF TRAILING_WITH_ACT_NUMBER(trimmed).matched
       THEN FromMatch(TRAILING_WITH_ACT_NUMBER(trimmed))
     ELSE IF TRAILING_SECTION(trimmed).matched
       THEN FromMatch(TRAILING_SECTION(trimmed))
     ELSE UnknownCitation

NotFormatted == Undefined

FormatInit ==
  /\ style = "none"
  /\ formatted = NotFormatted
  /\ reformatted = NotFormatted

\* formatCitation(parseCitation(citation), format) is called.
FormatCitation(format) ==
  /\ cpc = "done"
  /\ formatted = NotFormatted
  /\ style' = format
  /\ formatted' = formatCitation(parsedCitation, format)
  /\ UNCHANGED reformatted
  /\ UNCHANGED notFormat

\* The string returned is parsed and formatted again in the same style.
FormatAgain ==
  /\ formatted # NotFormatted
  /\ reformatted = NotFormatted
  /\ reformatted' = formatCitation(parseCitation(Atoms(formatted)), style)
  /\ UNCHANGED <<style, formatted>>
  /\ UNCHANGED notFormat

FormatNext ==
  \/ \E piece \in Pieces : AppendPiece(piece)
  \/ CallParseCitation
  \/ TryIdBased
  \/ TryFullWithActNumber
  \/ TryFullCitation
  \/ TryShortCitation
  \/ TryTrailingWithActNumber
  \/ TryTrailingSection
  \/ \E format \in CitationFormats : FormatCitation(format)
  \/ FormatAgain

(***************************************************************************)
(* Claims about formatCitation                                             *)
(***************************************************************************)
\* C14: for every citation that parseCitation accepts and every style, the
\* formatted citation F is stable: parsing F and formatting the result in the
\* same style gives F again.
C14_FormattingIsStable ==
  (parsedCitation.valid /\ reformatted # NotFormatted) => reformatted = formatted

(***************************************************************************)
(* validateCitation (src/citation/validator.ts)                            *)
(* The tables are sets of rows; a text column holds a string (a sequence   *)
(* of characters), an id a name.                                           *)
(***************************************************************************)
\* legal_documents rows
DocDpa ==
  [id |-> "act-843-2012", title |-> <<"D", "P", "A", ",", " ", "2", "0", "1", "2">>, act_number |-> 843,
   year |-> 2012, status |-> "in_force"]
DocOld ==
  [id |-> "act-7-1999", title |-> <<"D", "P", "A">>, act_number |-> 7,
   year |-> 1999, status |-> "repealed"]
DocZero ==
  [id |-> "act-0-2012", title |-> <<"C", "A", ",", " ", "2", "0", "1", "2">>, act_number |-> 0,
   year |-> 2012, status |-> "in_force"]
DocTwin ==
  [id |-> "li-843-2012", title |-> <<"N", "I", "A">>, act_number |-> 843,
   year |-> 2012, status |-> "amended"]
DocumentRows == {DocDpa, DocOld, DocZero, DocTwin}

\* legal_provisions rows
ProvisionRow(documentId, provisionRef, section) ==
  [document_id |-> documentId, provision_ref |-> provisionRef, section |-> section]
ProvisionRows ==
  { ProvisionRow("act-843-2012", <<"s", "1">>, <<"1">>),
    ProvisionRow("act-843-2012", <<"s", "1", "(", "2", ")">>, <<"1", "(", "2", ")">>),
    ProvisionRow("act-843-2012", <<"s", "1", "(", "2", ")", "(", "a", ")">>, <<"1", "(", "(", "2", ")", ")", "(", "a", ")">>),
    ProvisionRow("act-843-2012", <<"s", "1", "0">>, <<"1", "0">>),
    ProvisionRow("act-7-1999", <<"s", "2">>, <<"2">>) }

EmptyCorpus == [legal_documents |-> {}, legal_provisions |-> {}]

\* the atoms of more citations
Ref1Sub2 == <<"1", "(", "2", ")">>
Ref1Sub2Sub3 == <<"1", "(", "2", ")", "(", "3", ")">>
Ref2 == <<"2">>
Ref3 == <<"3">>
Ref10 == <<"1", "0">>
TitleCa == <<"C", "A">>
TitleZz == <<"Z", "Z">>
Year1999 == <<"1", "9", "9", "9">>
ActParen0 == <<"(", "A", "c", "t", " ", "0", ")">>
ActParen999 == <<"(", "A", "c", "t", " ", "9", "9", "9", ")">>
Id0 == <<"a", "c", "t", "-", "0", "-", "2", "0", "1", "2">>
TitleUnderscore == <<"D", "_", "A">>
TitlePercent == <<"D", "%">>

\* "T Y, s. n" for a row of legal_documents
TitleYearCitation(doc, n) ==
  Atoms(doc.title) \o <<Sp, NumberToString(doc.year), Comma, Sp, WordSDot, Sp, n>>

\* the strings validateCitation is called with
CitedStrings ==
  { <<WordSDot, Sp, Ref1, Comma, Sp, TitleDpa, Sp, Year2012>>,
    <<WordSDot, Sp, Ref3, Comma, Sp, TitleDpa, Sp, Year2012>>,
    <<WordSDot, Sp, Ref10, Comma, Sp, TitleDpa, Sp, Year2012>>,
    <<WordSDot, Sp, Ref1Sub2, Comma, Sp, TitleDpa, Sp, Year2012>>,
    <<WordSDot, Sp, Ref1Sub2Sub3, Comma, Sp, TitleDpa, Sp, Year2012>>,
    <<WordSection, Sp, Ref12a, Comma, Sp, TitleDpa, Sp, Year2012, Sp, ActParen843>>,
    <<WordSection, Sp, Ref1, Comma, Sp, TitleZz, Sp, Year2012, Sp, ActParen843>>,
    <<WordSection, Sp, Ref1, Comma, Sp, TitleDpa, Sp, Year2012, Sp, ActParen999>>,
    <<WordSection, Sp, Ref1, Comma, Sp, TitleZz, Sp, Year2012, Sp, ActParen0>>,
    <<TitleDpa, Sp, Year2012, Comma, Sp, WordSDot, Sp, Ref1>>,
    <<TitleDpa, Sp, Year1999, Comma, Sp, WordSDot, Sp, Ref2>>,
    <<Id843, Comma, Sp, WordSDot, Sp, Ref1>>,
    <<Id07, Comma, Sp, WordSDot, Sp, Ref2>>,
    <<Id0, Comma, Sp, WordSDot, Sp, Ref1>>,
    <<WordSDot, Sp, Ref1, Comma, Sp, TitleUnderscore, Sp, Year2012>>,
    <<WordSDot, Sp, Ref1, Comma, Sp, TitlePercent, Sp, Year2012>>,
    <<TitleDpa>> }
    \cup { TitleYearCitation(doc, n) : doc \in DocumentRows, n \in {Ref1, Ref3} }

\* text LIKE pattern from position i of the pattern and j of the text: % is
\* any text, _ any one character, letters match in either case
RECURSIVE LikeFrom(_, _, _, _)
LikeFrom(pattern, i, str, j) ==
  IF i > Len(pattern) THEN j > Len(str)
  ELSE IF pattern[i] = "%"
    THEN \E k \in j..(Len(str) + 1) : LikeFrom(pattern, i + 1, str, k)
  ELSE /\ j <= Len(str)
       /\ (pattern[i] = "_" \/ LowerChar(pattern[i]) = LowerChar(str[j]))
       /\ LikeFrom(pattern, i + 1, str, j + 1)

Like(str, pattern) == LikeFrom(pattern, 1, str, 1)

\* REPLACE(str, cc, c)
RECURSIVE ReplaceDoubled(_, _)
ReplaceDoubled(str, c) ==
  IF Len(str) < 2 THEN str
  ELSE IF str[1] = c /\ str[2] = c
    THEN <<c>> \o ReplaceDoubled(SubSeq(str, 3, Len(str)), c)
  ELSE <<str[1]>> \o ReplaceDoubled(Tail(str), c)

\* REPLACE(REPLACE(section, '((', '('), '))', ')')
NormalizedSection(section) == ReplaceDoubled(ReplaceDoubled(section, "("), ")")

\* if (parsed.act_number)
HasActNumber(parsed) == parsed.act_number # UndefinedNumber /\ parsed.act_number # 0

\* if (... && parsed.title)
HasTitle(parsed) == ~IsEmptyString(parsed.title)

\* WHERE act_number = ? AND year = ?
DocumentsByNumber(tables, parsed) ==
  { doc \in tables.legal_documents :
      doc.act_number = parsed.act_number /\ doc.year = parsed.year }

\* WHERE title LIKE `%${parsed.title}%${parsed.year ?? ''}%`
DocumentsByTitle(tables, parsed) ==
  { doc \in tables.legal_documents :
      Like(doc.title,
           <<"%">> \o parsed.title \o <<"%">>
             \o (IF parsed.year = UndefinedNumber THEN <<>>
                 ELSE NumberToString(parsed.year))
             \o <<"%">>) }

Lookup_NumberOrNothing(tables, parsed) ==
  IF HasActNumber(parsed)
    THEN [via |-> "number", rows |-> DocumentsByNumber(tables, parsed)]
  ELSE IF HasTitle(parsed)
    THEN [via |-> "title", rows |-> DocumentsByTitle(tables, parsed)]
  ELSE [via |-> "none", rows |-> {}]

\* The rows the two lookups can give (LIMIT 1 takes one of them), with the
\* lookup they come from.
Lookup(tables, parsed) ==
  LET byNumber == IF HasActNumber(parsed) THEN DocumentsByNumber(tables, parsed) ELSE {}
  IN IF byNumber # {} THEN [via |-> "number", rows |-> byNumber]
     ELSE IF HasTitle(parsed)
       THEN [via |-> "title", rows |-> DocumentsByTitle(tables, parsed)]
     ELSE [via |-> "none", rows |-> {}]

\* [parsed.section, parsed.subsection ? `(${...})` : '', parsed.paragraph ? ...].join('')
Pinpoint(parsed) ==
  parsed.section
    \o (IF ~IsEmptyString(parsed.subsection)
          THEN <<"(">> \o parsed.subsection \o <<")">> ELSE <<>>)
    \o (IF ~IsEmptyString(parsed.paragraph)
          THEN <<"(">> \o parsed.paragraph \o <<")">> ELSE <<>>)

AllowPrefixMatch_Always(parsed) == TRUE

\* parsed.subsection == null && parsed.paragraph == null
AllowPrefixMatch(parsed) ==
  parsed.subsection = Undefined /\ parsed.paragraph = Undefined

ProvisionMatches_AnyContinuation(row, documentId, parsed) ==
  LET pinpoint == Pinpoint(parsed)
      provisionRef == <<"s">> \o pinpoint
  IN /\ row.document_id = documentId
     /\ \/ row.provision_ref = provisionRef
        \/ row.section = pinpoint
        \/ NormalizedSection(row.section) = pinpoint
        \/ /\ AllowPrefixMatch(parsed)
           /\ \/ Like(row.provision_ref, provisionRef \o <<"%">>)
              \/ Like(NormalizedSection(row.section), pinpoint \o <<"%">>)

\* the WHERE clause of the provision query, for one row
ProvisionMatches(row, documentId, parsed) ==
  LET pinpoint == Pinpoint(parsed)
      provisionRef == <<"s">> \o pinpoint
  IN /\ row.document_id = documentId
     /\ \/ row.provision_ref = provisionRef
        \/ row.section = pinpoint
        \/ NormalizedSection(row.section) = pinpoint
        \/ /\ AllowPrefixMatch(parsed)
           /\ \/ Like(row.provision_ref, provisionRef \o <<"(", "%">>)
              \/ Like(NormalizedSection(row.section), pinpoint \o <<"(", "%">>)

NoDocument ==
  [id |-> "none", title |-> Undefined, act_number |-> UndefinedNumber,
   year |-> UndefinedNumber, status |-> "undefined"]

\* parsed.error: `Could not parse Ghana citation: "${trimmed}"`
ParseError(s) ==
  <<"C", "o", "u", "l", "d", " ", "n", "o", "t", " ", "p", "a", "r", "s", "e", " ", "G", "h", "a", "n", "a", " ", "c", "i", "t", "a", "t", "i", "o", "n", ":", " ", "\"">>
    \o Flatten(TrimAtoms(s)) \o <<"\"">>

\* `Document "${identifier}" not found in database`
DocumentNotFound(parsed) ==
  LET identifier ==
        IF HasActNumber(parsed)
          THEN <<"A", "c", "t", " ">> \o NumberToString(parsed.act_number)
                 \o <<" ", "(">> \o NumberToString(parsed.year) \o <<")">>
          ELSE (IF parsed.title = Undefined THEN <<"u", "n", "d", "e", "f", "i", "n", "e", "d">> ELSE parsed.title)
                 \o <<" ">> \o NumberToString(parsed.year)
  IN <<"D", "o", "c", "u", "m", "e", "n", "t", " ", "\"">> \o identifier
       \o <<"\"", " ", "n", "o", "t", " ", "f", "o", "u", "n", "d", " ", "i", "n", " ", "d", "a", "t", "a", "b", "a", "s", "e">>

\* `Section ${pinpoint} not found in ${doc.title}`
SectionNotFound(pinpoint, doc) ==
  <<"S", "e", "c", "t", "i", "o", "n", " ">> \o pinpoint
    \o <<" ", "n", "o", "t", " ", "f", "o", "u", "n", "d", " ", "i", "n", " ">> \o doc.title

Repealed == <<"T", "h", "i", "s", " ", "s", "t", "a", "t", "u", "t", "e", " ", "h", "a", "s", " ", "b", "e", "e", "n", " ", "r", "e", "p", "e", "a", "l", "e", "d">>

\* the result for a citation that did not parse, or whose document was not found
Rejected(parsed, warning) ==
  [citation |-> parsed, document_exists |-> FALSE, provision_exists |-> FALSE,
   document_title |-> Undefined, status |-> "undefined", warnings |-> <<warning>>]

\* the result once doc is set
Validated(tables, parsed, doc) ==
  LET provisionExists ==
        /\ ~IsEmptyString(parsed.section)
        /\ \E row \in tables.legal_provisions : ProvisionMatches(row, doc.id, parsed)
  IN [citation |-> parsed, document_exists |-> TRUE,
      provision_exists |-> provisionExists,
      document_title |-> doc.title, status |-> doc.status,
      warnings |->
        (IF doc.status = "repealed" THEN <<Repealed>> ELSE <<>>)
          \o (IF ~IsEmptyString(parsed.section) /\ ~provisionExists
                THEN <<SectionNotFound(Pinpoint(parsed), doc)>> ELSE <<>>)]

NotValidated == Rejected(NotParsed, Undefined)
NotResolved == [via |-> "none", doc |-> NoDocument]

ValidateInit ==
  /\ corpus = EmptyCorpus
  /\ cited = <<>>
  /\ resolved = NotResolved
  /\ validation = NotValidated

\* The database is built: one more row of legal_documents (id is the
\* primary key).
InsertDocument(doc) ==
  /\ validation = NotValidated
  /\ \A d \in corpus.legal_documents : d.id # doc.id
  /\ corpus' = [corpus EXCEPT !.legal_documents = @ \cup {doc}]
  /\ UNCHANGED <<cited, resolved, validation>>
  /\ UNCHANGED notValidate

\* The database is built: one more row of legal_provisions (document_id
\* references legal_documents, UNIQUE(document_id, provision_ref)).
InsertProvision(row) ==
  /\ validation = NotValidated
  /\ \E d \in corpus.legal_documents : d.id = row.document_id
  /\ \A r \in corpus.legal_provisions :
       ~(r.document_id = row.document_id /\ r.provision_ref = row.provision_ref)
  /\ corpus' = [corpus EXCEPT !.legal_provisions = @ \cup {row}]
  /\ UNCHANGED <<cited, resolved, validation>>
  /\ UNCHANGED notValidate

\* validateCitation(tables, citation) for a citation that no grammar accepts.
ValidateInvalid(s) ==
  /\ validation = NotValidated
  /\ ~parseCitation(s).valid
  /\ cited' = s
  /\ resolved' = NotResolved
  /\ validation' = Rejected(parseCitation(s), ParseError(s))
  /\ UNCHANGED corpus
  /\ UNCHANGED notValidate

\* validateCitation(tables, citation) when neither lookup gives a row.
ValidateNotFound(s) ==
  /\ validation = NotValidated
  /\ parseCitation(s).valid
  /\ Lookup(corpus, parseCitation(s)).rows = {}
  /\ cited' = s
  /\ resolved' = NotResolved
  /\ validation' = Rejected(parseCitation(s), DocumentNotFound(parseCitation(s)))
  /\ UNCHANGED corpus
  /\ UNCHANGED notValidate

\* validateCitation(tables, citation) when a lookup gives the row doc.
ValidateFound(s, doc) ==
  /\ validation = NotValidated
  /\ parseCitation(s).valid
  /\ doc \in Lookup(corpus, parseCitation(s)).rows
  /\ cited' = s
  /\ resolved' = [via |-> Lookup(corpus, parseCitation(s)).via, doc |-> doc]
  /\ validation' = Validated(corpus, parseCitation(s), doc)
  /\ UNCHANGED corpus
  /\ UNCHANGED notValidate

ValidateNext ==
  \/ \E doc \in DocumentRows : InsertDocument(doc)
  \/ \E row \in ProvisionRows : InsertProvision(row)
  \/ \E s \in CitedStrings : ValidateInvalid(s)
  \/ \E s \in CitedStrings : ValidateNotFound(s)
  \/ \E s \in CitedStrings, doc \in DocumentRows : ValidateFound(s, doc)

(***************************************************************************)
(* Claims about validateCitation                                           *)
(***************************************************************************)

\* a call of validateCitation has returned for a citation that parsed
ValidatedParsed == validation # NotValidated /\ validation.citation.valid

\* the rows of legal_documents with the number and year of the citation
RowsWithNumberAndYear ==
  { doc \in corpus.legal_documents :
      /\ validation.citation.act_number # UndefinedNumber
      /\ doc.act_number = validation.citation.act_number
      /\ doc.year = validation.citation.year }

\* C11: the document is resolved by instrument number and year first.  When
\* the parsed citation carries an instrument number and legal_documents
\* holds a row with that act_number and year, the result has
\* document_exists = true with the title and status of such a row, whatever
\* title the citation gives; the title match is used only when no row has
\* the number and year, or the citation carries no number.
C11_NumberLookupFirst ==
  ValidatedParsed =>
    /\ RowsWithNumberAndYear # {} =>
         /\ validation.document_exists
         /\ \E doc \in RowsWithNumberAndYear :
              /\ validation.document_title = doc.title
              /\ validation.status = doc.status
    /\ resolved.via = "title" => RowsWithNumberAndYear = {}

\* the same for every instrument number but 0
C11_NumberLookupFirstExceptZero ==
  (ValidatedParsed /\ validation.citation.act_number # 0) =>
    /\ RowsWithNumberAndYear # {} =>
         /\ validation.document_exists
         /\ resolved.via = "number"
         /\ resolved.doc \in RowsWithNumberAndYear
         /\ validation.document_title = resolved.doc.title
         /\ validation.status = resolved.doc.status
    /\ resolved.via = "title" => RowsWithNumberAndYear = {}

\* a citation of number 0 of 2012 was validated against a corpus that holds
\* number 0 of 2012
C11_ZeroCited ==
  /\ ValidatedParsed
  /\ validation.citation.act_number = 0
  /\ DocZero \in RowsWithNumberAndYear

\* a numbered citation whose title matches no row was resolved by its number
C11_WitnessNumber ==
  /\ ValidatedParsed
  /\ resolved.via = "number"
  /\ validation.citation.title = TitleZz
  /\ validation.document_exists

\* the parse of the validated citation captured a subsection or a paragraph
CapturedSubpart ==
  \/ validation.citation.subsection # Undefined
  \/ validation.citation.paragraph # Undefined

\* the rows of the resolved document that match the pinpoint exactly
ExactRows ==
  LET pinpoint == Pinpoint(validation.citation)
  IN { row \in corpus.legal_provisions :
         /\ row.document_id = resolved.doc.id
         /\ \/ row.provision_ref = <<"s">> \o pinpoint
            \/ row.section = pinpoint
            \/ NormalizedSection(row.section) = pinpoint }

\* the rows of the resolved document that continue the pinpoint with "("
PrefixRows ==
  LET pinpoint == Pinpoint(validation.citation)
  IN { row \in corpus.legal_provisions :
         /\ row.document_id = resolved.doc.id
         /\ \/ Like(row.provision_ref, <<"s">> \o pinpoint \o <<"(", "%">>)
            \/ Like(NormalizedSection(row.section), pinpoint \o <<"(", "%">>) }

\* C12: for a citation whose parse captured a subsection or a paragraph,
\* provision_exists = true only on an exact match (provision_ref = "s" +
\* pinpoint, section = pinpoint, or section with doubled parentheses
\* normalized = pinpoint); rows that only continue the pinpoint with "("
\* count only when neither subsection nor paragraph was captured.
C12_PrefixOnlyWithoutSubparts ==
  (ValidatedParsed /\ validation.document_exists /\ CapturedSubpart) =>
    (validation.provision_exists <=> ExactRows # {})

\* without a captured subsection or paragraph the prefix rows count too
C12_PrefixWithoutSubparts ==
  (ValidatedParsed /\ validation.document_exists /\ ~CapturedSubpart) =>
    (validation.provision_exists <=> (ExactRows # {} \/ PrefixRows # {}))

\* "1(2)" was cited, the document has 1(2)(a) and not 1(2): no provision
C12_Witness ==
  /\ ValidatedParsed
  /\ validation.document_exists
  /\ validation.citation.subsection = <<"2">>
  /\ PrefixRows # {}
  /\ ExactRows = {}
  /\ ~validation.provision_exists

\* "1(2)" was cited and the document has 1(2)
C12_WitnessExact ==
  /\ ValidatedParsed
  /\ CapturedSubpart
  /\ ExactRows # {}
  /\ validation.provision_exists

\* "1" was cited, the document has 1(2) and not 1: the prefix counts
C12_WitnessPrefix ==
  /\ ValidatedParsed
  /\ ~CapturedSubpart
  /\ ExactRows = {}
  /\ PrefixRows # {}
  /\ validation.provision_exists

\* doc has a provision for section n
HasSection(doc, n) ==
  \E row \in corpus.legal_provisions : row.document_id = doc.id /\ row.section = n

\* a warning of the result names section n and the title of doc
WarnsOfSection(n, doc) ==
  \E i \in 1..Len(validation.warnings) : validation.warnings[i] = SectionNotFound(n, doc)

\* C13: for every row of legal_documents with title T and year Y,
\* validateCitation("T Y, s. n") gives document_exists = true; when the
\* document has no provision for section n, provision_exists = false and a
\* warning names section n and the title of the document; when it has one,
\* provision_exists = true.
C13_TitleYearRoundTrip ==
  \A doc \in corpus.legal_documents, n \in {Ref1, Ref3} :
    (validation # NotValidated /\ cited = TitleYearCitation(doc, n)) =>
      /\ validation.document_exists
      /\ HasSection(doc, n) => validation.provision_exists
      /\ ~HasSection(doc, n) =>
           (~validation.provision_exists /\ WarnsOfSection(n, doc))

\* "T Y, s. 1" was validated for a row with title T and year Y
C13_TitleYearCited ==
  \E doc \in corpus.legal_documents :
    validation # NotValidated /\ cited = TitleYearCitation(doc, Ref1)

\* the validated citation carries an instrument number
CarriesNumber == ValidatedParsed /\ validation.citation.act_number # UndefinedNumber

\* the rows whose title the title pattern of the citation matches
RowsWithTitle ==
  IF HasTitle(validation.citation)
    THEN DocumentsByTitle(corpus, validation.citation) ELSE {}

\* C25: when a citation carries an instrument number, document_exists =
\* true only if the resolved document has that act_number and that year; a
\* citation whose title matches a document but whose "(Act <number>)"
\* matches none is reported as document_exists = false.
C25_ExistsOnlyByNumber ==
  CarriesNumber =>
    /\ validation.document_exists => resolved.doc \in RowsWithNumberAndYear
    /\ RowsWithNumberAndYear = {} => ~validation.document_exists

\* C25, as the code has it: when a citation carries an instrument number,
\* document_exists = true only if the resolved document has that act_number
\* and that year or its title matches the title and year of the citation;
\* a citation whose title matches a document but whose "(Act <number>)"
\* matches none is reported as document_exists = true, with the title and
\* status of a document its title matches.
C25_ExistsByNumberOrTitle ==
  CarriesNumber =>
    /\ validation.document_exists =>
         \/ resolved.doc \in RowsWithNumberAndYear
         \/ resolved.doc \in RowsWithTitle
    /\ (RowsWithNumberAndYear = {} /\ RowsWithTitle # {}) =>
         /\ validation.document_exists
         /\ resolved.doc \in RowsWithTitle
         /\ validation.document_title = resolved.doc.title
         /\ validation.status = resolved.doc.status

\* "Section 1, DPA 2012 (Act 999)": no row has number 999, the title matches
C25_Witness ==
  /\ CarriesNumber
  /\ validation.citation.act_number = 999
  /\ RowsWithNumberAndYear = {}
  /\ validation.document_exists
  /\ resolved.doc = DocDpa

\* sub occurs in str at position i, letters in either case
OccursAt(str, sub, i) ==
  /\ i + Len(sub) - 1 <= Len(str)
  /\ LowerAtom(SubSeq(str, i, i + Len(sub) - 1)) = LowerAtom(sub)

\* title occurs in str and year occurs after it
TitleThenYear(str, title, year) ==
  \E i \in 1..Len(str) :
    /\ OccursAt(str, title, i)
    /\ \E j \in (i + Len(title))..Len(str) : OccursAt(str, year, j)

\* C26: when the document is resolved through the title fallback, the cited
\* title occurs literally (ignoring ASCII case) in the title of the resolved
\* document, followed later in that title by the cited year; '%' and '_' in
\* the cited title are matched as themselves and never widen the match.
C26_TitleMatchedLiterally ==
  (ValidatedParsed /\ resolved.via = "title") =>
    TitleThenYear(resolved.doc.title, validation.citation.title,
                  NumberToString(validation.citation.year))

\* the same for cited titles without '%' and '_'
C26_PlainTitleMatchedLiterally ==
  (/\ ValidatedParsed
   /\ resolved.via = "title"
   /\ \A k \in DOMAIN validation.citation.title :
        validation.citation.title[k] \notin {"%", "_"}) =>
    TitleThenYear(resolved.doc.title, validation.citation.title,
                  NumberToString(validation.citation.year))

\* a title with '_' or '%' was cited against a corpus that holds DocDpa
C26_WildcardCited ==
  /\ ValidatedParsed
  /\ validation.citation.title \in {TitleUnderscore, TitlePercent}
  /\ DocDpa \in corpus.legal_documents

\* the digits a stored or cited section starts with
LeadingDigits(str) == SubSeq(str, 1, DigitsEnd(str, 1) - 1)

\* the section number of a stored row, by its provision_ref ("s<n>...") or
\* by its section ("<n>...")
SectionNumbers(row) ==
  { LeadingDigits(row.section) }
    \cup (IF row.provision_ref # <<>> /\ LowerChar(Head(row.provision_ref)) = "s"
            THEN { LeadingDigits(Tail(row.provision_ref)) } ELSE {})

\* C27: a section is never confirmed through a different section number.
\* provision_exists = true only if the resolved document has a provision
\* whose section number is exactly the cited one (stored as s<n>, s<n>(...),
\* section n or n(...)), so provisions of section 10 never satisfy a
\* citation of section 1; and provision_exists = true implies
\* document_exists = true.
C27_SameSectionNumber ==
  (validation # NotValidated /\ validation.provision_exists) =>
    /\ validation.document_exists
    /\ \E row \in corpus.legal_provisions :
         /\ row.document_id = resolved.doc.id
         /\ LeadingDigits(validation.citation.section) \in SectionNumbers(row)

\* "s. 1" was cited, the document has section 10 and no section 1
C27_Witness ==
  /\ ValidatedParsed
  /\ validation.document_exists
  /\ validation.citation.section = Ref1
  /\ ~CapturedSubpart
  /\ \E row \in corpus.legal_provisions :
       row.document_id = resolved.doc.id /\ row.section = Ref10
  /\ \A row \in corpus.legal_provisions :
       row.document_id = resolved.doc.id => Ref1 \notin SectionNumbers(row)
  /\ ~validation.provision_exists

\* "s. 1" was cited and confirmed by a row of section 1 only through the
\* prefix match
C27_WitnessPrefix ==
  /\ C12_WitnessPrefix
  /\ validation.citation.section = Ref1

(***************************************************************************)
(* Document ids (scripts/lib/parser.ts, scripts/ingest.ts,                 *)
(* scripts/check-updates.ts) and the ID-based grammar of parseCitation     *)
(***************************************************************************)
\* the act numbers and years of the index entries
EntryNumbers == {0, 7, 10, 29, 843, 1038}
EntryYears == {1000, 1992, 2012, 9999}
\* the sections that are cited
SectionsCited == { <<"1">>, <<"1", "0">>, <<"2", "9">>, <<"0", "1">> }

NoEntry == [actNumber |-> UndefinedNumber, year |-> UndefinedNumber]

toDocumentId_YearFirst(e) ==
  <<"a", "c", "t", "-">> \o NumberToString(e.year) \o <<"-">> \o NumberToString(e.actNumber)

\* `act-${entry.actNumber}-${entry.year}`
toDocumentId(e) ==
  <<"a", "c", "t", "-">> \o NumberToString(e.actNumber) \o <<"-">> \o NumberToString(e.year)

\* "<id>, s. <k>"
IdCitation(id, k) == id \o <<",", " ", "s", ".", " ">> \o k

DocIdInit ==
  /\ entry = NoEntry
  /\ derivedId = Undefined
  /\ sectionCited = Undefined
  /\ idParsed = NotParsed

\* The id of an index entry is derived.
DeriveId(n, y) ==
  /\ entry = NoEntry
  /\ entry' = [actNumber |-> n, year |-> y]
  /\ derivedId' = toDocumentId(entry')
  /\ UNCHANGED <<sectionCited, idParsed>>
  /\ UNCHANGED notDocId

\* parseCitation("<id>, s. <k>")
ParseIdCitation(k) ==
  /\ entry # NoEntry
  /\ sectionCited = Undefined
  /\ sectionCited' = k
  /\ idParsed' = parseCitation(Atoms(IdCitation(derivedId, k)))
  /\ UNCHANGED <<entry, derivedId>>
  /\ UNCHANGED notDocId

DocIdNext ==
  \/ \E n \in EntryNumbers, y \in EntryYears : DeriveId(n, y)
  \/ \E k \in SectionsCited : ParseIdCitation(k)

\* C30: the document id and the ID-based grammar are inverse to each other.
\* For every act number n >= 0 and four-digit year y, the id "act-<n>-<y>"
\* derived from (n, y) is parsed back by parseCitation("act-<n>-<y>, s. <k>")
\* into a valid citation with act_number = n, year = y and section = k.
C30_IdParsesBack ==
  sectionCited # Undefined =>
    /\ idParsed.valid
    /\ idParsed.act_number = entry.actNumber
    /\ idParsed.year = entry.year
    /\ idParsed.section = sectionCited

\* the id of act number 0 of the year 1000 was parsed back
C30_Witness ==
  /\ sectionCited = <<"0", "1">>
  /\ entry = [actNumber |-> 0, year |-> 1000]
  /\ derivedId = <<"a", "c", "t", "-", "0", "-", "1", "0", "0", "0">>
  /\ idParsed.valid
  /\ idParsed.act_number = 0

(***************************************************************************)
(* discoverActs (scripts/ingest.ts) and parseActIndex                      *)
(* (scripts/lib/parser.ts)                                                 *)
(*                                                                         *)
(* A site says what the server answers for each index page.  The body of   *)
(* a page is its act links in document order, whether it has a link to a   *)
(* page whose text is "next", and whether it has any link to a page.       *)
(***************************************************************************)
\* if (page > 200) break
PageSafetyLimit == 200

Sites ==
  { [kind |-> "finite", pages |-> n] : n \in 1..3 }
    \cup { [kind |-> "numbered", pages |-> 2],
           [kind |-> "endless", pages |-> 0],
           [kind |-> "failing", pages |-> 0],
           [kind |-> "failing", pages |-> 2],
           [kind |-> "throwing", pages |-> 1] }
NoSite == [kind |-> "none", pages |-> 0]

\* the link i of page p: the title tells the links of one act apart
ActLink(year, actNumber, p, i) ==
  [year |-> year, actNumber |-> actNumber, title |-> <<p, i>>]

\* result.body of page p: three links, the third to the act of the first
\* (one link on the pages of the endless site)
IndexBody(s, p) ==
  IF s.kind \in {"finite", "numbered"} /\ p >= s.pages
    THEN [links |-> <<>>, nextLink |-> FALSE, pageLinks |-> s.kind = "numbered"]
  ELSE IF s.kind = "endless"
    THEN [links |-> <<ActLink(2012, (p % 3) + 1, p, 1)>>,
          nextLink |-> TRUE, pageLinks |-> TRUE]
    ELSE [links |-> <<ActLink(2012, (p % 3) + 1, p, 1),
                      ActLink(2012 - (p % 2), ((p + 1) % 3) + 1, p, 2),
                      ActLink(2012, (p % 3) + 1, p, 3)>>,
          nextLink |-> IF s.kind = "finite" THEN p < s.pages - 1
                       ELSE s.kind # "numbered",
          pageLinks |-> s.kind # "finite" \/ s.pages > 1]

\* result.status of page p
IndexStatus(s, p) ==
  IF s.kind = "failing" /\ p = s.pages THEN 503
  ELSE IF s.kind = "finite" /\ p >= s.pages THEN 404
  ELSE 200

\* fetchActIndex(p) rejects
IndexFetchThrows(s, p) == s.kind = "throwing" /\ p = s.pages

\* `${entry.year}-${entry.actNumber}`
EntryKey(e) == <<e.year, e.actNumber>>

\* the position in entries of the k-th of the positions kept
NthOf(kept, k) == CHOOSE i \in kept : Cardinality({j \in kept : j <= i}) = k

FirstPerKey_KeepsLast(entries) ==
  LET kept == { i \in DOMAIN entries :
                  \A j \in (i + 1)..Len(entries) :
                    EntryKey(entries[j]) # EntryKey(entries[i]) }
  IN [k \in 1..Cardinality(kept) |-> entries[NthOf(kept, k)]]

\* Deduplicate by year+actNumber: the loop over entries with the Set seen
\* pushes entry i exactly when no entry before it has its key
FirstPerKey(entries) ==
  LET kept == { i \in DOMAIN entries :
                  \A j \in 1..(i - 1) :
                    EntryKey(entries[j]) # EntryKey(entries[i]) }
  IN [k \in 1..Cardinality(kept) |-> entries[NthOf(kept, k)]]

parseActIndex(body) ==
  LET entries == body.links
      hasNextPage == body.nextLink
      hasNumberedNext == body.pageLinks /\ Len(entries) > 0
  IN [entries |-> FirstPerKey(entries), hasNextPage |-> hasNextPage \/ hasNumberedNext]

DiscoverInit ==
  /\ dpc = "idle"
  /\ site = NoSite
  /\ page = 0
  /\ hasMore = TRUE
  /\ allEntries = <<>>
  /\ fetchedPages = <<>>
  /\ savedIndex = <<>>

\* discoverActs() is called.
StartDiscovery(s) ==
  /\ dpc = "idle"
  /\ dpc' = "fetching"
  /\ site' = s
  /\ UNCHANGED <<page, hasMore, allEntries, fetchedPages, savedIndex>>
  /\ UNCHANGED notDiscover

\* One pass of the while loop in which fetchActIndex returns.
FetchIndexPage ==
  /\ dpc = "fetching"
  /\ ~IndexFetchThrows(site, page)
  /\ fetchedPages' = Append(fetchedPages, page)
  /\ IF IndexStatus(site, page) # 200
       THEN /\ dpc' = "saving"
            /\ UNCHANGED <<page, hasMore, allEntries>>
       ELSE LET indexResult == parseActIndex(IndexBody(site, page))
            IN /\ allEntries' = allEntries \o indexResult.entries
               /\ hasMore' = indexResult.hasNextPage
               /\ page' = page + 1
               /\ dpc' = IF page' > PageSafetyLimit \/ ~hasMore'
                           THEN "saving" ELSE "fetching"
  /\ UNCHANGED <<site, savedIndex>>
  /\ UNCHANGED notDiscover

\* fetchActIndex rejects: the error leaves discoverActs.
FetchIndexThrows ==
  /\ dpc = "fetching"
  /\ IndexFetchThrows(site, page)
  /\ fetchedPages' = Append(fetchedPages, page)
  /\ dpc' = "failed"
  /\ UNCHANGED <<site, page, hasMore, allEntries, savedIndex>>
  /\ UNCHANGED notDiscover

\* After the loop: the entries are deduplicated, saved and returned.
SaveIndex ==
  /\ dpc = "saving"
  /\ savedIndex' = FirstPerKey(allEntries)
  /\ dpc' = "done"
  /\ UNCHANGED <<site, page, hasMore, allEntries, fetchedPages>>
  /\ UNCHANGED notDiscover

DiscoverNext ==
  \/ \E s \in Sites : StartDiscovery(s)
  \/ FetchIndexPage
  \/ FetchIndexThrows
  \/ SaveIndex

(***************************************************************************)
(* Claims about discoverActs                                               *)
(***************************************************************************)
\* page p of the site ends the loop: its status is not 200 or it reports no
\* next page
IsLastPage(p) ==
  \/ IndexStatus(site, p) # 200
  \/ ~parseActIndex(IndexBody(site, p)).hasNextPage

\* the links met: <<n, i>> is link i of the n-th fetched page
LinksMet ==
  { m \in (DOMAIN fetchedPages) \X (1..3) :
      /\ IndexStatus(site, fetchedPages[m[1]]) = 200
      /\ m[2] <= Len(IndexBody(site, fetchedPages[m[1]]).links) }

LinkAt(m) == IndexBody(site, fetchedPages[m[1]]).links[m[2]]

\* link m is met before link n
MetBefore(m, n) == m[1] < n[1] \/ (m[1] = n[1] /\ m[2] < n[2])

\* the first link met with the key of e
FirstMet(e) ==
  CHOOSE m \in LinksMet :
    /\ EntryKey(LinkAt(m)) = EntryKey(e)
    /\ \A n \in LinksMet : MetBefore(n, m) => EntryKey(LinkAt(n)) # EntryKey(e)

C29_FetchesInOrderAndStops ==
  /\ \A i \in DOMAIN fetchedPages : fetchedPages[i] = i - 1
  /\ Len(fetchedPages) <= PageSafetyLimit + 1
  /\ \A i \in 1..(Len(fetchedPages) - 1) : ~IsLastPage(fetchedPages[i])
  /\ dpc \in {"saving", "done"} =>
       \/ IsLastPage(fetchedPages[Len(fetchedPages)])
       \/ Len(fetchedPages) = PageSafetyLimit + 1

C29_IndexHoldsFirstPerKey ==
  dpc = "done" =>
    /\ \A i, j \in DOMAIN savedIndex :
         EntryKey(savedIndex[i]) = EntryKey(savedIndex[j]) => i = j
    /\ \A m \in LinksMet : \E i \in DOMAIN savedIndex :
         EntryKey(savedIndex[i]) = EntryKey(LinkAt(m))
    /\ \A i \in DOMAIN savedIndex :
         /\ \E m \in LinksMet : EntryKey(LinkAt(m)) = EntryKey(savedIndex[i])
         /\ savedIndex[i] = LinkAt(FirstMet(savedIndex[i]))
    /\ \A i, j \in DOMAIN savedIndex :
         i < j => MetBefore(FirstMet(savedIndex[i]), FirstMet(savedIndex[j]))

\* C29: discovery always terminates.  discoverActs fetches the index pages
\* 0, 1, 2, ... in order, stops at the first page whose status is not 200
\* or that reports no next page, and never fetches more than 201 pages; the
\* index it returns and saves holds at most one entry per (year, act
\* number), the first one met, in the order they are first met.
C29_DiscoveryTerminates ==
  /\ [](C29_FetchesInOrderAndStops /\ C29_IndexHoldsFirstPerKey)
  /\ <>(dpc \in {"done", "failed"})

\* every page of the site has a next page: 201 pages were fetched and the
\* index was saved
C29_Witness ==
  /\ dpc = "done"
  /\ site.kind = "endless"
  /\ Len(fetchedPages) = 201
  /\ Len(allEntries) = 201
  /\ Len(savedIndex) < Len(allEntries)

\* the site has one page, which reports no next page
C29_WitnessLastPage ==
  /\ dpc = "done"
  /\ site = [kind |-> "finite", pages |-> 1]
  /\ fetchedPages = <<0>>
  /\ Len(savedIndex) = 2

\* the site has three pages, each with a link to another page: the fourth
\* fetch gives status 404
C29_WitnessNotFound ==
  /\ dpc = "done"
  /\ site = [kind |-> "finite", pages |-> 3]
  /\ fetchedPages = <<0, 1, 2, 3>>

(***************************************************************************)
(* The update checker (scripts/check-updates.ts)                           *)
(***************************************************************************)
PAGE_LIMIT == 3
REQUEST_TIMEOUT_MS == 15000

\* !existsSync(DB_PATH)
DatabaseMissing == {<<"missing">>}
NotRead == {<<"not read">>}
Running == UndefinedNumber

UpstreamAct(year, actNumber) == [year |-> year, actNumber |-> actNumber, title |-> <<>>]
\* what the database can hold
LocalDocSets ==
  { {}, {toDocumentId(UpstreamAct(2012, 843))},
    {toDocumentId(UpstreamAct(2012, 843)), toDocumentId(UpstreamAct(2020, 1038))} }
\* what an index page can hold
UpstreamBodies ==
  { [links |-> links, nextLink |-> next, pageLinks |-> next] :
      links \in { <<>>, <<UpstreamAct(2012, 843)>>,
                  <<UpstreamAct(2012, 843), UpstreamAct(2020, 1038)>> },
      next \in BOOLEAN }
\* how a request can end before the timer expires, other than by a response
\* that is ok: `HTTP ${response.status}`, or fetch rejects
FetchFailures == {"http error", "network error"}

NewActs_None(entries, docs) == <<>>

\* the entries whose document id is not in localDocs
NewActs(entries, docs) ==
  LET IsNew(e) == toDocumentId(e) \notin docs
  IN SelectSeq(entries, IsNew)

UpdateInit ==
  /\ upc = "start"
  /\ localDocs = NotRead
  /\ indexPage = 0
  /\ recentEntries = <<>>
  /\ waited = 0
  /\ responses = <<>>
  /\ exitCode = Running

\* main(): the database file is missing.
NoDatabase ==
  /\ upc = "start"
  /\ localDocs' = DatabaseMissing
  /\ exitCode' = 2
  /\ upc' = "exited"
  /\ UNCHANGED <<indexPage, recentEntries, waited, responses>>
  /\ UNCHANGED notUpdate

\* main(): the ids of the local documents are read.
ReadLocalDocs(docs) ==
  /\ upc = "start"
  /\ localDocs' = docs
  /\ upc' = "request"
  /\ UNCHANGED <<indexPage, recentEntries, waited, responses, exitCode>>
  /\ UNCHANGED notUpdate

\* fetchIndexPage(page): the timer is set and the request is sent.
SendIndexRequest ==
  /\ upc = "request"
  /\ waited' = 0
  /\ upc' = "awaiting"
  /\ UNCHANGED <<localDocs, indexPage, recentEntries, responses, exitCode>>
  /\ UNCHANGED notUpdate

\* Time passes while the request is in flight.
IndexRequestWaits ==
  /\ upc = "awaiting"
  /\ waited < REQUEST_TIMEOUT_MS
  /\ waited' = Min(waited + 5000, REQUEST_TIMEOUT_MS)
  /\ UNCHANGED <<upc, localDocs, indexPage, recentEntries, responses, exitCode>>
  /\ UNCHANGED notUpdate

\* The response and its text arrive before the timer expires and the status
\* is ok: the rest of the pass of the loop of fetchRecentEntries.
IndexResponse(body) ==
  /\ upc = "awaiting"
  /\ waited < REQUEST_TIMEOUT_MS
  /\ LET parsed == parseActIndex(body)
     IN /\ recentEntries' = recentEntries \o parsed.entries
        /\ responses' = Append(responses, [kind |-> "ok", links |-> body.links,
                                           hasNextPage |-> parsed.hasNextPage])
        /\ IF ~parsed.hasNextPage \/ indexPage + 1 >= PAGE_LIMIT
             THEN upc' = "compare" /\ UNCHANGED indexPage
             ELSE upc' = "request" /\ indexPage' = indexPage + 1
  /\ UNCHANGED <<localDocs, waited, exitCode>>
  /\ UNCHANGED notUpdate

\* The status is not ok or fetch rejects: the error reaches main().catch.
IndexFetchFails(failure) ==
  /\ upc = "awaiting"
  /\ waited < REQUEST_TIMEOUT_MS
  /\ responses' = Append(responses, [kind |-> failure, links |-> <<>>,
                                     hasNextPage |-> FALSE])
  /\ exitCode' = 2
  /\ upc' = "exited"
  /\ UNCHANGED <<localDocs, indexPage, recentEntries, waited>>
  /\ UNCHANGED notUpdate

\* The timer expires: controller.abort() makes fetch reject, the error
\* reaches main().catch.
IndexRequestAborted ==
  /\ upc = "awaiting"
  /\ waited >= REQUEST_TIMEOUT_MS
  /\ responses' = Append(responses, [kind |-> "aborted", links |-> <<>>,
                                     hasNextPage |-> FALSE])
  /\ exitCode' = 2
  /\ upc' = "exited"
  /\ UNCHANGED <<localDocs, indexPage, recentEntries, waited>>
  /\ UNCHANGED notUpdate

\* main() after fetchRecentEntries: the entries are compared with the local
\* documents.
CompareWithLocal ==
  /\ upc = "compare"
  /\ exitCode' = IF Len(NewActs(recentEntries, localDocs)) > 0 THEN 1 ELSE 0
  /\ upc' = "exited"
  /\ UNCHANGED <<localDocs, indexPage, recentEntries, waited, responses>>
  /\ UNCHANGED notUpdate

UpdateNext ==
  \/ NoDatabase
  \/ \E docs \in LocalDocSets : ReadLocalDocs(docs)
  \/ SendIndexRequest
  \/ IndexRequestWaits
  \/ \E body \in UpstreamBodies : IndexResponse(body)
  \/ \E failure \in FetchFailures : IndexFetchFails(failure)
  \/ IndexRequestAborted
  \/ CompareWithLocal

(***************************************************************************)
(* Claims about the update checker                                         *)
(***************************************************************************)
\* an index-page fetch returned a status that is not ok, failed, or did not
\* complete within 15 s
AFetchFailed ==
  \E i \in DOMAIN responses : responses[i].kind # "ok"

\* an entry of a fetched page has an id that is no local document
AnEntryIsNew ==
  \E i \in DOMAIN responses : \E k \in DOMAIN responses[i].links :
    toDocumentId(responses[i].links[k]) \notin localDocs

C24_WitnessUpdates ==
  /\ upc = "exited"
  /\ Len(responses) = 3
  /\ responses[3].hasNextPage
  /\ exitCode = 1

\* every entry is local: exit code 0
C24_WitnessNoUpdates ==
  /\ upc = "exited"
  /\ recentEntries # <<>>
  /\ exitCode = 0

(***************************************************************************)
(* Specifications                                                          *)
(***************************************************************************)
FetchIdle == callers = {} /\ FetchStart
DedupeIdle == DedupeInit
ParseIdle == ParseInit
ExtractIdle == ExtractInit
LoadIdle == LoadInit
CiteIdle == CiteInit
IngestIdle == IngestInit
FormatIdle == FormatInit
ValidateIdle == ValidateInit
DocIdIdle == DocIdInit
DiscoverIdle == DiscoverInit
UpdateIdle == UpdateInit

InitFetch == FetchInit /\ DedupeIdle /\ ParseIdle /\ ExtractIdle /\ LoadIdle /\ CiteIdle /\ IngestIdle /\ FormatIdle /\ ValidateIdle /\ DocIdIdle /\ DiscoverIdle /\ UpdateIdle
InitOverlap == OverlapInit /\ DedupeIdle /\ ParseIdle /\ ExtractIdle /\ LoadIdle /\ CiteIdle /\ IngestIdle /\ FormatIdle /\ ValidateIdle /\ DocIdIdle /\ DiscoverIdle /\ UpdateIdle
InitDedupe == DedupeInit /\ FetchIdle /\ ParseIdle /\ ExtractIdle /\ LoadIdle /\ CiteIdle /\ IngestIdle /\ FormatIdle /\ ValidateIdle /\ DocIdIdle /\ DiscoverIdle /\ UpdateIdle
InitParse == ParseInit /\ FetchIdle /\ DedupeIdle /\ ExtractIdle /\ LoadIdle /\ CiteIdle /\ IngestIdle /\ FormatIdle /\ ValidateIdle /\ DocIdIdle /\ DiscoverIdle /\ UpdateIdle
InitExtract == ExtractInit /\ FetchIdle /\ DedupeIdle /\ ParseIdle /\ LoadIdle /\ CiteIdle /\ IngestIdle /\ FormatIdle /\ ValidateIdle /\ DocIdIdle /\ DiscoverIdle /\ UpdateIdle
InitLoad == LoadInit /\ FetchIdle /\ DedupeIdle /\ ParseIdle /\ ExtractIdle /\ CiteIdle /\ IngestIdle /\ FormatIdle /\ ValidateIdle /\ DocIdIdle /\ DiscoverIdle /\ UpdateIdle
InitCite == CiteInit /\ FetchIdle /\ DedupeIdle /\ ParseIdle /\ ExtractIdle /\ LoadIdle /\ IngestIdle /\ FormatIdle /\ ValidateIdle /\ DocIdIdle /\ DiscoverIdle /\ UpdateIdle
InitIngest == IngestInit /\ FetchIdle /\ DedupeIdle /\ ParseIdle /\ ExtractIdle /\ LoadIdle /\ CiteIdle /\ FormatIdle /\ ValidateIdle /\ DocIdIdle /\ DiscoverIdle /\ UpdateIdle
InitFormat == FormatInit /\ FetchIdle /\ DedupeIdle /\ ParseIdle /\ ExtractIdle /\ LoadIdle /\ CiteIdle /\ IngestIdle /\ ValidateIdle /\ DocIdIdle /\ DiscoverIdle /\ UpdateIdle
InitValidate == ValidateInit /\ FetchIdle /\ DedupeIdle /\ ParseIdle /\ ExtractIdle /\ LoadIdle /\ CiteIdle /\ IngestIdle /\ FormatIdle /\ DocIdIdle /\ DiscoverIdle /\ UpdateIdle
InitDocId == DocIdInit /\ FetchIdle /\ DedupeIdle /\ ParseIdle /\ ExtractIdle /\ LoadIdle /\ CiteIdle /\ IngestIdle /\ FormatIdle /\ ValidateIdle /\ DiscoverIdle /\ UpdateIdle
InitDiscover == DiscoverInit /\ FetchIdle /\ DedupeIdle /\ ParseIdle /\ ExtractIdle /\ LoadIdle /\ CiteIdle /\ IngestIdle /\ FormatIdle /\ ValidateIdle /\ DocIdIdle /\ UpdateIdle
InitUpdate == UpdateInit /\ FetchIdle /\ DedupeIdle /\ ParseIdle /\ ExtractIdle /\ LoadIdle /\ CiteIdle /\ IngestIdle /\ FormatIdle /\ ValidateIdle /\ DocIdIdle /\ DiscoverIdle

SpecFetch == InitFetch /\ [][FetchNext]_vars

SpecOverlap == InitOverlap /\ [][FetchNext]_vars

SpecDedupe == InitDedupe /\ [][DedupeNext]_vars

SpecParse == InitParse /\ [][ParseNext]_vars

SpecExtract == InitExtract /\ [][ExtractNext]_vars

SpecLoad == InitLoad /\ [][LoadNext]_vars

SpecCite == InitCite /\ [][CiteNext]_vars

SpecIngest == InitIngest /\ [][IngestNext]_vars

SpecFormat == InitFormat /\ [][FormatNext]_vars

SpecValidate == InitValidate /\ [][ValidateNext]_vars

SpecDocId == InitDocId /\ [][DocIdNext]_vars

SpecDiscover == InitDiscover /\ [][DiscoverNext]_vars

\* every await of discoverActs settles and the function goes on
SpecDiscoverFair == SpecDiscover /\ WF_vars(DiscoverNext)

SpecUpdate == InitUpdate /\ [][UpdateNext]_vars

====
